---- MODULE Spec2Model ----
(***************************************************************************)
(* A model of the indexing / search orchestrator of multi-search:          *)
(*   search_orchestrator.rs  SearchOrchestrator (index, update, delete,    *)
(*                           hybrid_search)                                *)
(*   index_manager.rs        IndexManager, the Tantivy keyword index       *)
(*   vector_db.rs            VectorDBManager, the LanceDB embeddings table *)
(*   embedding_generator.rs  EmbeddingGenerator (per-document batch)       *)
(*   parsers.rs              parse_document, parse_plain_text              *)
(*                                                                         *)
(* Strings whose characters matter (paths, titles, SQL literals) are       *)
(* sequences of one-character strings.  The two stores are bags: Tantivy   *)
(* and LanceDB both append, and neither enforces a key.                    *)
(***************************************************************************)
EXTENDS Integers, Sequences, FiniteSets, Bags, TLC

VARIABLES
    lexical,    \* the Tantivy index: a bag of LexicalRecord
    vectors,    \* the LanceDB "embeddings" table: a bag of EmbeddingRecord
    calls,      \* per caller slot: the orchestrator call in flight / last returned
    pre,        \* history, per slot: the stores when its call began
    search,     \* the hybrid_search call: its inputs, stage and result
    parse       \* the call of the parsers module: its input and result

vars == <<lexical, vectors, calls, pre, search, parse>>

-----------------------------------------------------------------------------
(* Bounds of the model *)

\* how many records the lexical index may hold before index() is no longer offered
MaxDocs == 2
\* the instant SystemTime::now() returns, in seconds since the epoch
NowSecs == 1790000000

\* the caller slots; the sequential specifications use the first one only
Slots == {1, 2}
Caller == {1}

-----------------------------------------------------------------------------
(* Characters and strings *)

Upper == {"A", "B"}
Lowers == {"a", "b"}
Digits == <<"1", "2", "3", "4", "5", "6", "7", "8", "9">>

\* char::is_alphanumeric, on the characters of the model
IsAlphanumeric(c) == c \in Upper \cup Lowers \cup {"0"} \cup {Digits[i] : i \in 1..9}

\* the LowerCaser filter of Tantivy's "default" tokenizer
ToLower(c) == IF c = "A" THEN "a" ELSE IF c = "B" THEN "b" ELSE c

\* char::is_whitespace
IsWhitespace(c) == c \in {" ", "\n", "\r", "\t"}

RECURSIVE TrimStart(_)
TrimStart(s) ==
    IF s = <<>> THEN <<>>
    ELSE IF IsWhitespace(Head(s)) THEN TrimStart(Tail(s)) ELSE s

RECURSIVE TrimEnd(_)
TrimEnd(s) ==
    IF s = <<>> THEN <<>>
    ELSE IF IsWhitespace(s[Len(s)]) THEN TrimEnd(SubSeq(s, 1, Len(s) - 1)) ELSE s

\* str::trim
Trim(s) == TrimEnd(TrimStart(s))

-----------------------------------------------------------------------------
(* The paths, titles and bodies the callers pass *)

PathA    == <<"a">>
PathB    == <<"b">>
PathUp   == <<"A">>
PathSep  == <<"a", "/", "b">>
PathApos == <<"a", "'", "b">>

Paths == {PathA, PathB, PathUp, PathSep, PathApos}

\* the paths of the specifications with failures
FaultPaths == {PathA, PathSep}

Titles == {<<>>, <<"T">>}

\* A body is the sequence of its pieces between sentence boundaries; a piece is
\* its words, its length in bytes and in characters.  A piece without words holds
\* no alphanumeric character: text.unicode_sentences() leaves it out.
SentenceCat == [words |-> <<"cat">>, bytes |-> 4, chars |-> 4]
SentenceTheCat == [words |-> <<"The", "Cat.">>, bytes |-> 9, chars |-> 9]
\* a sentence of two-byte characters
SentenceWide == [words |-> <<"ab">>, bytes |-> 900, chars |-> 450]
\* a sentence longer than a chunk
SentenceLong == [words |-> <<"eel">>, bytes |-> 1200, chars |-> 1200]
\* white space only
Blank == [words |-> <<>>, bytes |-> 1, chars |-> 1]

Bodies == {<<>>, <<SentenceCat>>}

SourceTypes == {"file"}

NoAuthor == "none"

\* SystemTime: whole seconds since the epoch and the sub-second part
DateNow == [secs |-> NowSecs, nanos |-> 0]
DatePreEpoch == [secs |-> -1, nanos |-> 0]

RawDocuments(paths, dates) ==
    [path : paths, title : Titles, body : Bodies, source_type : SourceTypes,
     author : {NoAuthor}, modified_date : dates]

-----------------------------------------------------------------------------
(* embedding_generator.rs: the text analysis and the per-document batch *)

\* the stop words (embedding_generator.rs:132-223) among the words of the model
StopWords == {"the"}

\* word.trim_matches(|c| !c.is_alphanumeric()).to_lowercase(), per word of the model
CleanWord(w) ==
    CASE w = "Cat." -> "cat"
      [] w = "The"  -> "the"
      [] OTHER      -> w

\* clean_word.len(): the length in bytes of the cleaned word
CleanLen(w) ==
    CASE CleanWord(w) = "ab" -> 2
      [] OTHER               -> 3

\* a word that counts: longer than 2 and no stop word
IsContentWord(w) == CleanLen(w) > 2 /\ CleanWord(w) \notin StopWords

RECURSIVE CountIn(_, _)
\* how often the cleaned word cw occurs among the content words of a word list
CountIn(cw, ws) ==
    IF ws = <<>> THEN 0
    ELSE (IF IsContentWord(Head(ws)) /\ CleanWord(Head(ws)) = cw THEN 1 ELSE 0)
         + CountIn(cw, Tail(ws))

RECURSIVE WordFreq(_, _)
\* word_freq[cw] over all sentences
WordFreq(cw, sentences) ==
    IF sentences = <<>> THEN 0
    ELSE CountIn(cw, Head(sentences).words) + WordFreq(cw, Tail(sentences))

RECURSIVE ScoreSum(_, _)
\* the sum of word_freq over the content words of one sentence
ScoreSum(ws, sentences) ==
    IF ws = <<>> THEN 0
    ELSE (IF IsContentWord(Head(ws)) THEN WordFreq(CleanWord(Head(ws)), sentences) ELSE 0)
         + ScoreSum(Tail(ws), sentences)

RECURSIVE ContentCount(_)
ContentCount(ws) ==
    IF ws = <<>> THEN 0
    ELSE (IF IsContentWord(Head(ws)) THEN 1 ELSE 0) + ContentCount(Tail(ws))

\* the score of sentence i as a fraction num/den (score /= word_count when > 0)
SentenceScore(sentences, i) ==
    LET ws == sentences[i].words
        n  == ContentCount(ws)
    IN  [num |-> ScoreSum(ws, sentences), den |-> IF n > 0 THEN n ELSE 1]

ScoreGreater(x, y) == x.num * y.den > y.num * x.den
ScoreEqual(x, y) == x.num * y.den = y.num * x.den

\* the position after a sort that puts the later of two equal scores first
RankOfLaterFirst(sentences, i) ==
    Cardinality({j \in 1..Len(sentences) :
        \/ ScoreGreater(SentenceScore(sentences, j), SentenceScore(sentences, i))
        \/ /\ ScoreEqual(SentenceScore(sentences, j), SentenceScore(sentences, i))
           /\ j > i})

\* the position of sentence i after the stable sort by descending score
RankOf(sentences, i) ==
    Cardinality({j \in 1..Len(sentences) :
        \/ ScoreGreater(SentenceScore(sentences, j), SentenceScore(sentences, i))
        \/ /\ ScoreEqual(SentenceScore(sentences, j), SentenceScore(sentences, i))
           /\ j < i})

Min(a, b) == IF a < b THEN a ELSE b
Max(a, b) == IF a > b THEN a ELSE b

\* num_sentences = min(5, max(3, sentences.len() / 3))
NumSentences(n) == Min(5, Max(3, n \div 3))

RECURSIVE SelectInOrder(_, _, _)
\* the selected sentences in their original order
SelectInOrder(sentences, i, k) ==
    IF i > Len(sentences) THEN <<>>
    ELSE (IF RankOf(sentences, i) < k THEN <<sentences[i]>> ELSE <<>>)
         \o SelectInOrder(sentences, i + 1, k)

\* A text: how it was put together and of which sentences or characters.
\*   "chars"   the characters themselves (a title)
\*   "raw"     the sentences as they stand in the body
\*   "trimmed" each sentence trimmed, joined by one space
\*   "spaced"  the sentences as they stand, joined by one added space
Text(form, chars, sents) == [form |-> form, chars |-> chars, sents |-> sents]

RECURSIVE unicode_sentences(_)
\* text.unicode_sentences(): the pieces that hold an alphanumeric character
unicode_sentences(body) ==
    IF body = <<>> THEN <<>>
    ELSE (IF Head(body).words # <<>> THEN <<Head(body)>> ELSE <<>>)
         \o unicode_sentences(Tail(body))

\* text.is_empty()
IsEmptyText(t) == t.chars = <<>> /\ t.sents = <<>>

\* text.trim().is_empty()
IsBlank(t) ==
    IF t.form = "chars" THEN Trim(t.chars) = <<>>
    ELSE \A i \in 1..Len(t.sents) : t.sents[i].words = <<>>

\* a summary that selects and re-joins the sentences of every body, short or not
summarize_text_rejoined(body) ==
    LET sentences == unicode_sentences(body)
    IN  Text("trimmed", <<>>, SelectInOrder(sentences, 1, NumSentences(Len(sentences))))

\* EmbeddingGenerator::summarize_text
summarize_text(body) ==
    LET sentences == unicode_sentences(body)
    IN  IF Len(sentences) <= 3 THEN Text("raw", <<>>, body)
        ELSE Text("trimmed", <<>>,
                  SelectInOrder(sentences, 1, NumSentences(Len(sentences))))

TARGET_CHUNK_SIZE == 1000

RECURSIVE ChunkLen(_)
\* current_chunk.len(): the bytes of its sentences and of the spaces between them
ChunkLen(c) ==
    IF c = <<>> THEN 0
    ELSE Head(c).bytes + (IF Len(c) > 1 THEN 1 ELSE 0) + ChunkLen(Tail(c))

RECURSIVE ChunkLoopLate(_, _, _)
\* a loop that emits current_chunk only once it has grown beyond the target
ChunkLoopLate(rest, cur, chunks) ==
    IF rest = <<>>
    THEN IF ~IsBlank(Text("spaced", <<>>, cur)) THEN Append(chunks, cur) ELSE chunks
    ELSE IF cur # <<>> /\ ChunkLen(cur) > TARGET_CHUNK_SIZE
         THEN ChunkLoopLate(Tail(rest), <<Head(rest)>>, Append(chunks, cur))
         ELSE ChunkLoopLate(Tail(rest), Append(cur, Head(rest)), chunks)

RECURSIVE ChunkLoop(_, _, _)
\* the loop of chunk_text: rest = the sentences still to come, cur = current_chunk
ChunkLoop(rest, cur, chunks) ==
    IF rest = <<>>
    THEN IF ~IsBlank(Text("spaced", <<>>, cur)) THEN Append(chunks, cur) ELSE chunks
    ELSE IF cur # <<>> /\ ChunkLen(cur) + Head(rest).bytes + 1 > TARGET_CHUNK_SIZE
         THEN ChunkLoop(Tail(rest), <<Head(rest)>>, Append(chunks, cur))
         ELSE ChunkLoop(Tail(rest), Append(cur, Head(rest)), chunks)

\* a chunking over every piece between sentence boundaries, as
\* split_sentence_bounds would give them
chunk_text_of_all_pieces(body) == ChunkLoop(body, <<>>, <<>>)

\* EmbeddingGenerator::chunk_text: each chunk is the sequence of its sentences
chunk_text(body) == ChunkLoop(unicode_sentences(body), <<>>, <<>>)

\* the vector the model computes for a text: a function of the text
Embed(t) == [of |-> t]

\* a check that lets whitespace through: text.is_empty()
embedding_of_untrimmed(t) ==
    IF t.form = "chars" /\ t.chars = <<>>
    THEN [ok |-> FALSE, value |-> <<>>]
    ELSE [ok |-> TRUE, value |-> Embed(t)]

\* EmbeddingGenerator::generate_single_embedding: an error for a text that is empty
\* after trimming
generate_single_embedding(t) ==
    IF IsBlank(t)
    THEN [ok |-> FALSE, value |-> <<>>]
    ELSE [ok |-> TRUE, value |-> Embed(t)]

EmbeddingRecord(t, path, type) ==
    [embedding |-> generate_single_embedding(t).value, text_chunk |-> t,
     document_path |-> path, embedding_type |-> type]

RECURSIVE ChunkRecordsUnguarded(_, _)
ChunkRecordsUnguarded(chunks, path) ==
    IF chunks = <<>> THEN <<>>
    ELSE <<EmbeddingRecord(Text("spaced", <<>>, Head(chunks)), path, "chunk")>>
         \o ChunkRecordsUnguarded(Tail(chunks), path)

RECURSIVE ChunkRecords(_, _)
ChunkRecords(chunks, path) ==
    IF chunks = <<>> THEN <<>>
    ELSE LET t == Text("spaced", <<>>, Head(chunks))
         IN  (IF ~IsBlank(t) THEN <<EmbeddingRecord(t, path, "chunk")>> ELSE <<>>)
             \o ChunkRecords(Tail(chunks), path)

\* a batch built without the three emptiness checks
generate_embeddings_unguarded(title, body, document_path) ==
    <<EmbeddingRecord(Text("chars", title, <<>>), document_path, "title"),
      EmbeddingRecord(summarize_text(body), document_path, "summary")>>
    \o ChunkRecordsUnguarded(chunk_text(body), document_path)

\* EmbeddingGenerator::generate_embeddings_for_document
generate_embeddings_for_document(title, body, document_path) ==
    LET t == Text("chars", title, <<>>)
        summary == summarize_text(body)
    IN  (IF ~IsBlank(t) THEN <<EmbeddingRecord(t, document_path, "title")>> ELSE <<>>)
        \o (IF ~IsBlank(summary)
            THEN <<EmbeddingRecord(summary, document_path, "summary")>> ELSE <<>>)
        \o ChunkRecords(chunk_text(body), document_path)

-----------------------------------------------------------------------------
(* index_manager.rs: the Tantivy keyword index *)

\* the bag b without the elements that satisfy Gone
BagWithout(b, Gone(_)) ==
    LET keep == {x \in DOMAIN b : ~Gone(x)} IN [x \in keep |-> b[x]]

RECURSIVE TokenizeLoop(_, _, _)
\* Tantivy's "default" tokenizer, which a TEXT field is indexed with: cut at every
\* character that is not alphanumeric, and lower-case (chars = what is left to
\* read, cur = the token being read, toks = the tokens read)
TokenizeLoop(chars, cur, toks) ==
    IF chars = <<>>
    THEN IF cur # <<>> THEN Append(toks, cur) ELSE toks
    ELSE IF IsAlphanumeric(Head(chars))
         THEN TokenizeLoop(Tail(chars), Append(cur, ToLower(Head(chars))), toks)
         ELSE TokenizeLoop(Tail(chars), <<>>,
                           IF cur # <<>> THEN Append(toks, cur) ELSE toks)

\* the tokens the index holds for a record's path: schema_builder.add_text_field(
\* "path", TEXT | STORED | FAST) indexes the path through the tokenizer
PathTokens(path) == TokenizeLoop(path, <<>>, <<>>)

PathTerms(path) == {PathTokens(path)[i] : i \in 1..Len(PathTokens(path))}

\* Term::from_field_text(self.path_field, path): the text as given, not tokenized
TermFromFieldText(path) == path

\* whether a record of the index contains the term in its path field
MatchesTerm(record, term) == term \in PathTerms(record.path)

\* calculate_hash (search_orchestrator.rs): the digest, a function of the body
calculate_hash(body) == [sha256 |-> body]

\* the KeywordDocument index_document builds from a RawDocument
KeywordDocument(doc) ==
    [path |-> doc.path, title |-> doc.title, body |-> doc.body,
     source_type |-> doc.source_type, author |-> doc.author,
     modified_date |-> doc.modified_date, content_hash |-> calculate_hash(doc.body)]

\* doc.modified_date.duration_since(UNIX_EPOCH)? fails for an instant before it
DurationSinceEpochOk(date) == date.secs >= 0

\* the TantivyDocument add_document_batch builds: the date is kept in whole seconds
TantivyDocument(kd) ==
    [path |-> kd.path, title |-> kd.title, body |-> kd.body,
     source_type |-> kd.source_type, author |-> kd.author,
     content_hash |-> kd.content_hash, timestamp_secs |-> kd.modified_date.secs]

RECURSIVE AddAll(_, _)
AddAll(index, docs) ==
    IF docs = <<>> THEN index
    ELSE AddAll(index (+) SetToBag({TantivyDocument(Head(docs))}), Tail(docs))

\* IndexManager::add_document_batch: every document is added, none is replaced;
\* an error before writer.commit() leaves the index as it was
add_document_batch(index, docs) ==
    IF \A i \in 1..Len(docs) : DurationSinceEpochOk(docs[i].modified_date)
    THEN [ok |-> TRUE, index |-> AddAll(index, docs)]
    ELSE [ok |-> FALSE, index |-> index]

\* a delete that removes one matching document only, as a delete by document
\* address would, instead of all that hold the term
delete_first_match(index, path) ==
    LET hits == {r \in DOMAIN index : MatchesTerm(r, TermFromFieldText(path))}
        one  == CHOOSE r \in hits : TRUE
    IN  IF hits = {} THEN index ELSE index (-) SetToBag({one})

\* IndexManager::delete_document: writer.delete_term(path_term); writer.commit()
delete_document(index, path) ==
    LET term == TermFromFieldText(path)
        Gone(r) == MatchesTerm(r, term)
    IN  BagWithout(index, Gone)

\* the SearchResult read back from a stored document
SearchResult(record) ==
    [path |-> record.path, title |-> record.title, source_type |-> record.source_type,
     modified_date |-> [secs |-> record.timestamp_secs, nanos |-> 0]]

\* Option<SearchResult>
None == [some |-> FALSE]
Some(x) == [some |-> TRUE, value |-> x]

\* IndexManager::get_document_metadata: the results the TermQuery with
\* TopDocs::with_limit(1) can give.  Of the documents that contain the term the
\* best-scored one is returned; each holds the term once, so BM25 prefers the
\* shortest path field, and documents of equal score may come in either order.
get_document_metadata(index, path) ==
    LET term == TermFromFieldText(path)
        hits == {r \in DOMAIN index : MatchesTerm(r, term)}
        top  == {r \in hits : \A q \in hits : Len(PathTokens(r.path)) <= Len(PathTokens(q.path))}
    IN  IF hits = {} THEN {None} ELSE {Some(SearchResult(r)) : r \in top}

-----------------------------------------------------------------------------
(* vector_db.rs: the LanceDB embeddings table *)

RECURSIVE escape_sql_string(_)
\* VectorDBManager::escape_sql_string: input.replace("'", "''")
escape_sql_string(input) ==
    IF input = <<>> THEN <<>>
    ELSE (IF Head(input) = "'" THEN <<"'", "'">> ELSE <<Head(input)>>)
         \o escape_sql_string(Tail(input))

RECURSIVE ReadSqlLiteral(_, _)
\* how the filter's parser reads a string literal after its opening quote: two
\* quotes are one quote of the value, one quote ends it, and nothing may follow
ReadSqlLiteral(chars, value) ==
    IF chars = <<>> THEN [ok |-> FALSE, value |-> value]
    ELSE IF Head(chars) # "'" THEN ReadSqlLiteral(Tail(chars), Append(value, Head(chars)))
    ELSE IF Len(chars) >= 2 /\ chars[2] = "'"
         THEN ReadSqlLiteral(Tail(Tail(chars)), Append(value, "'"))
         ELSE [ok |-> Len(chars) = 1, value |-> value]

\* format!("document_path = '{}'", escaped_path): the characters after the opening quote
FilterLiteral(document_path) == escape_sql_string(document_path) \o <<"'">>

RECURSIVE AddRows(_, _)
AddRows(table, records) ==
    IF records = <<>> THEN table
    ELSE AddRows(table (+) SetToBag({Head(records)}), Tail(records))

\* VectorDBManager::add_embeddings: nothing for an empty batch, else the rows are appended
add_embeddings(table, records) ==
    IF records = <<>> THEN table ELSE AddRows(table, records)

\* VectorDBManager::delete_document_embeddings: table.delete(filter)
delete_document_embeddings(table, document_path) ==
    LET lit == ReadSqlLiteral(FilterLiteral(document_path), <<>>)
        Gone(row) == row.document_path = lit.value
    IN  IF lit.ok THEN [ok |-> TRUE, table |-> BagWithout(table, Gone)]
        ELSE [ok |-> FALSE, table |-> table]

-----------------------------------------------------------------------------
(* search_orchestrator.rs: index_document, delete_document, update_document *)

NoDoc == [path |-> <<>>, title |-> <<>>, body |-> <<>>, source_type |-> "none",
          author |-> NoAuthor, modified_date |-> [secs |-> 0, nanos |-> 0]]

\* a caller slot with no call
IdleCall ==
    [op |-> "none", pc |-> "idle", doc |-> NoDoc, path |-> <<>>, records |-> <<>>,
     kw |-> "none", vec |-> "none", result |-> "none", follows |-> FALSE,
     retries |-> FALSE, reindex |-> FALSE]

NoSnapshot == [taken |-> FALSE, lexical |-> EmptyBag, vectors |-> EmptyBag]
Snapshot == [taken |-> TRUE, lexical |-> lexical, vectors |-> vectors]

\* the caller may start a call when its previous one has returned
CanStart(s) == calls[s].pc \in {"idle", "done"}

\* the stores still have room for one more document
HasRoom(doc) ==
    /\ BagCardinality(lexical) < MaxDocs
    /\ BagCardinality(vectors) <= 3 * (MaxDocs - 1)

Returned(s, op, result) ==
    calls[s].pc = "done" /\ calls[s].op = op /\ calls[s].result = result

\* the last call of the slot was an index that returned an error with one of its
\* two writes committed
PartlyIndexed(s) ==
    /\ Returned(s, "index", "err")
    /\ \/ calls[s].kw = "ok" /\ calls[s].vec = "err"
       \/ calls[s].kw = "err" /\ calls[s].vec = "ok"

\* index_document is called: the hash and the KeywordDocument are built, and the
\* embedding batch is handed to spawn_blocking
StartIndex(s, doc) ==
    /\ CanStart(s)
    /\ HasRoom(doc)
    /\ calls' = [calls EXCEPT ![s] =
                    [IdleCall EXCEPT !.op = "index", !.pc = "embedding",
                                     !.doc = doc, !.path = doc.path]]
    /\ pre' = [pre EXCEPT ![s] = Snapshot]
    /\ UNCHANGED <<lexical, vectors, search, parse>>

\* delete_document is called: both deletes are joined
StartDelete(s, path) ==
    /\ CanStart(s)
    /\ LET again == Returned(s, "delete", "ok") /\ calls[s].path = path
       IN  /\ calls' = [calls EXCEPT ![s] =
                          [IdleCall EXCEPT !.op = "delete", !.pc = "deleting",
                                           !.path = path, !.kw = "pending",
                                           !.vec = "pending", !.follows = again]]
           /\ pre' = [pre EXCEPT ![s] = Snapshot]
    /\ UNCHANGED <<lexical, vectors, search, parse>>

\* an update that goes straight to index_document and leaves the old rows
StartUpdateWithoutDelete(s, doc) ==
    /\ CanStart(s)
    /\ HasRoom(doc)
    /\ calls' = [calls EXCEPT ![s] =
                    [IdleCall EXCEPT !.op = "update", !.pc = "embedding",
                                     !.doc = doc, !.path = doc.path,
                                     !.follows = Returned(s, "index", "ok")
                                                 /\ calls[s].doc = doc]]
    /\ pre' = [pre EXCEPT ![s] = Snapshot]
    /\ UNCHANGED <<lexical, vectors, search, parse>>

\* update_document is called: it first awaits delete_document(&doc.path)
StartUpdate(s, doc) ==
    /\ CanStart(s)
    /\ HasRoom(doc)
    /\ calls' = [calls EXCEPT ![s] =
                    [IdleCall EXCEPT !.op = "update", !.pc = "deleting",
                                     !.doc = doc, !.path = doc.path,
                                     !.kw = "pending", !.vec = "pending",
                                     !.follows = Returned(s, "index", "ok")
                                                 /\ calls[s].doc = doc,
                                     !.retries = PartlyIndexed(s) /\ calls[s].doc = doc]]
    /\ pre' = [pre EXCEPT ![s] = Snapshot]
    /\ UNCHANGED <<lexical, vectors, search, parse>>

\* the blocking task of delete_document: index_manager.delete_document(&path)
KwDelete(s) ==
    /\ calls[s].pc = "deleting" /\ calls[s].kw = "pending"
    /\ lexical' = delete_document(lexical, calls[s].path)
    /\ calls' = [calls EXCEPT ![s].kw = "ok"]
    /\ UNCHANGED <<vectors, pre, search, parse>>

\* the other arm of the join: vector_db.delete_document_embeddings(path)
VecDelete(s) ==
    /\ calls[s].pc = "deleting" /\ calls[s].vec = "pending"
    /\ LET r == delete_document_embeddings(vectors, calls[s].path)
       IN  /\ vectors' = r.table
           /\ calls' = [calls EXCEPT ![s].vec = IF r.ok THEN "ok" ELSE "err"]
    /\ UNCHANGED <<lexical, pre, search, parse>>

Joined(s) == calls[s].kw \in {"ok", "err"} /\ calls[s].vec \in {"ok", "err"}
BothOk(s) == calls[s].kw = "ok" /\ calls[s].vec = "ok"

\* delete_document returns: keyword_result?; vector_result?; Ok(())
DeleteReturn(s) ==
    /\ calls[s].op = "delete" /\ calls[s].pc = "deleting" /\ Joined(s)
    /\ calls' = [calls EXCEPT ![s].pc = "done",
                              ![s].result = IF BothOk(s) THEN "ok" ELSE "err"]
    /\ UNCHANGED <<lexical, vectors, pre, search, parse>>

\* update_document: self.delete_document(&doc.path).await? returned Ok, and
\* index_document(doc) begins
UpdateReindex(s) ==
    /\ calls[s].op = "update" /\ calls[s].pc = "deleting" /\ Joined(s) /\ BothOk(s)
    /\ calls' = [calls EXCEPT ![s].pc = "embedding", ![s].kw = "none", ![s].vec = "none",
                              ![s].reindex = TRUE]
    /\ UNCHANGED <<lexical, vectors, pre, search, parse>>

\* the blocking task of index_document returns the embedding batch, and the two
\* writes are joined
EmbedDone(s) ==
    /\ calls[s].pc = "embedding"
    /\ calls' = [calls EXCEPT
                    ![s].records = generate_embeddings_for_document(
                                       calls[s].doc.title, calls[s].doc.body,
                                       calls[s].doc.path),
                    ![s].pc = "writing", ![s].kw = "pending", ![s].vec = "pending"]
    /\ UNCHANGED <<lexical, vectors, pre, search, parse>>

\* the blocking task of the join: index_manager.add_document_batch(vec![keyword_doc])
KwWrite(s) ==
    /\ calls[s].pc = "writing" /\ calls[s].kw = "pending"
    /\ LET r == add_document_batch(lexical, <<KeywordDocument(calls[s].doc)>>)
       IN  /\ lexical' = r.index
           /\ calls' = [calls EXCEPT ![s].kw = IF r.ok THEN "ok" ELSE "err"]
    /\ UNCHANGED <<vectors, pre, search, parse>>

\* the other arm of the join: vector_db.add_embeddings(embedding_records)
VecWrite(s) ==
    /\ calls[s].pc = "writing" /\ calls[s].vec = "pending"
    /\ vectors' = add_embeddings(vectors, calls[s].records)
    /\ calls' = [calls EXCEPT ![s].vec = "ok"]
    /\ UNCHANGED <<lexical, pre, search, parse>>

\* a return at the first failure, as try_join! would give, while the other write
\* is still under way
IndexReturnEarly(s) ==
    /\ calls[s].pc = "writing"
    /\ Joined(s) \/ calls[s].kw = "err" \/ calls[s].vec = "err"
    /\ calls' = [calls EXCEPT ![s].pc = "done",
                              ![s].result = IF BothOk(s) THEN "ok" ELSE "err"]
    /\ UNCHANGED <<lexical, vectors, pre, search, parse>>

\* index_document returns (and with it update_document): keyword_result?;
\* vector_result?; Ok(())
IndexReturn(s) ==
    /\ calls[s].pc = "writing" /\ Joined(s)
    /\ calls' = [calls EXCEPT ![s].pc = "done",
                              ![s].result = IF BothOk(s) THEN "ok" ELSE "err"]
    /\ UNCHANGED <<lexical, vectors, pre, search, parse>>

-----------------------------------------------------------------------------
(* Failures: a store that rejects a commit, a blocking task that fails *)

\* the keyword delete fails (writer or commit error): nothing is deleted
KwDeleteFail(s) ==
    /\ calls[s].pc = "deleting" /\ calls[s].kw = "pending"
    /\ calls' = [calls EXCEPT ![s].kw = "err"]
    /\ UNCHANGED <<lexical, vectors, pre, search, parse>>

\* table.delete fails: nothing is deleted
VecDeleteFail(s) ==
    /\ calls[s].pc = "deleting" /\ calls[s].vec = "pending"
    /\ calls' = [calls EXCEPT ![s].vec = "err"]
    /\ UNCHANGED <<lexical, vectors, pre, search, parse>>

\* update_document: self.delete_document(&doc.path).await? returned Err
UpdateAbort(s) ==
    /\ calls[s].op = "update" /\ calls[s].pc = "deleting" /\ Joined(s) /\ ~BothOk(s)
    /\ calls' = [calls EXCEPT ![s].pc = "done", ![s].result = "err"]
    /\ UNCHANGED <<lexical, vectors, pre, search, parse>>

\* an index_document that writes the keyword document before it asks for the
\* embedding batch
EmbedFailAfterKeywordWrite(s) ==
    /\ calls[s].pc = "embedding"
    /\ lexical' = add_document_batch(lexical, <<KeywordDocument(calls[s].doc)>>).index
    /\ calls' = [calls EXCEPT ![s].pc = "done", ![s].result = "err"]
    /\ UNCHANGED <<vectors, pre, search, parse>>

\* spawn_blocking(generate_embeddings_for_document).await?? fails: index_document
\* returns before the join
EmbedFail(s) ==
    /\ calls[s].pc = "embedding"
    /\ calls' = [calls EXCEPT ![s].pc = "done", ![s].result = "err"]
    /\ UNCHANGED <<lexical, vectors, pre, search, parse>>

\* the keyword write fails (writer or commit error): nothing is added
KwWriteFail(s) ==
    /\ calls[s].pc = "writing" /\ calls[s].kw = "pending"
    /\ calls' = [calls EXCEPT ![s].kw = "err"]
    /\ UNCHANGED <<lexical, vectors, pre, search, parse>>

\* table.add fails: nothing is added
VecWriteFail(s) ==
    /\ calls[s].pc = "writing" /\ calls[s].vec = "pending"
    /\ calls' = [calls EXCEPT ![s].vec = "err"]
    /\ UNCHANGED <<lexical, vectors, pre, search, parse>>

\* no hybrid_search is running
IdleSearch ==
    [stage |-> "idle", query |-> <<>>, at |-> NoSnapshot, failed |-> {},
     kw |-> <<>>, tv |-> <<>>, sv |-> <<>>, cv |-> <<>>, i |-> 0,
     scores |-> <<>>, results |-> <<>>]

-----------------------------------------------------------------------------
(* parsers.rs: the dispatcher by file extension and the plain text parser *)

\* char::to_lowercase, on the characters of the model; KELVIN stands for the
\* Kelvin sign U+212A, whose lower case is the letter k
LowerOf ==
    [c \in {"C", "D", "E", "F", "K", "M", "P", "T", "X", "KELVIN"} |->
        CASE c = "C" -> "c" [] c = "D" -> "d" [] c = "E" -> "e" [] c = "F" -> "f"
          [] c = "K" -> "k" [] c = "M" -> "m" [] c = "P" -> "p" [] c = "T" -> "t"
          [] c = "X" -> "x" [] c = "KELVIN" -> "k"]

\* str::to_lowercase
to_lowercase(s) ==
    [i \in 1..Len(s) |-> IF s[i] \in DOMAIN LowerOf THEN LowerOf[s[i]] ELSE s[i]]

\* the patterns of the first arm of the match in parse_document
PlainTextArm ==
    {<<"t", "x", "t">>, <<"m", "d">>, <<"l", "o", "g">>, <<"c", "s", "v">>,
     <<"j", "s", "o", "n">>,<<"x", "m", "l">>, <<"h", "t", "m", "l">>,
     <<"c", "s", "s">>,<<"j", "s">>, <<"t", "s">>, <<"p", "y">>, <<"r", "s">>, <<"c">>,
     <<"c", "p", "p">>,<<"h">>, <<"h", "p", "p">>, <<"j", "a", "v", "a">>,
     <<"g", "o">>,<<"p", "h", "p">>, <<"r", "b">>, <<"s", "w", "i", "f", "t">>,
     <<"k", "t">>,<<"s", "c", "a", "l", "a">>, <<"s", "h">>, <<"b", "a", "t">>,
     <<"y", "m", "l">>,<<"y", "a", "m", "l">>, <<"t", "o", "m", "l">>,
     <<"i", "n", "i">>,<<"c", "f", "g">>, <<"c", "o", "n", "f">>}

\* the patterns of matches! in is_supported_file_type
SupportedPatterns ==
    {<<"t", "x", "t">>, <<"m", "d">>, <<"l", "o", "g">>, <<"c", "s", "v">>,
     <<"j", "s", "o", "n">>,<<"x", "m", "l">>, <<"h", "t", "m", "l">>,
     <<"c", "s", "s">>,<<"j", "s">>, <<"t", "s">>, <<"p", "y">>, <<"r", "s">>, <<"c">>,
     <<"c", "p", "p">>,<<"h">>, <<"h", "p", "p">>, <<"j", "a", "v", "a">>,
     <<"g", "o">>,<<"p", "h", "p">>, <<"r", "b">>, <<"s", "w", "i", "f", "t">>,
     <<"k", "t">>,<<"s", "c", "a", "l", "a">>, <<"s", "h">>, <<"b", "a", "t">>,
     <<"y", "m", "l">>,<<"y", "a", "m", "l">>, <<"t", "o", "m", "l">>,
     <<"i", "n", "i">>,<<"c", "f", "g">>, <<"c", "o", "n", "f">>, <<"p", "d", "f">>,
     <<"d", "o", "c", "x">>}

\* the vector supported_extensions() returns
supported_extensions ==
    <<<<"t", "x", "t">>, <<"m", "d">>, <<"l", "o", "g">>, <<"c", "s", "v">>,
      <<"j", "s", "o", "n">>,<<"x", "m", "l">>, <<"h", "t", "m", "l">>,
      <<"c", "s", "s">>,<<"j", "s">>, <<"t", "s">>, <<"p", "y">>, <<"r", "s">>,
      <<"c">>,<<"c", "p", "p">>, <<"h">>, <<"h", "p", "p">>, <<"j", "a", "v", "a">>,
      <<"g", "o">>,<<"p", "h", "p">>, <<"r", "b">>, <<"s", "w", "i", "f", "t">>,
      <<"k", "t">>,<<"s", "c", "a", "l", "a">>, <<"s", "h">>, <<"b", "a", "t">>,
      <<"y", "m", "l">>,<<"y", "a", "m", "l">>, <<"t", "o", "m", "l">>,
      <<"i", "n", "i">>,<<"c", "f", "g">>, <<"c", "o", "n", "f">>, <<"p", "d", "f">>,
      <<"d", "o", "c", "x">>>>

\* an extension compared as it stands
is_supported_exact(extension) == extension \in SupportedPatterns

\* is_supported_file_type
is_supported_file_type(extension) == to_lowercase(extension) \in SupportedPatterns

Ok(x) == [ok |-> TRUE, value |-> x]
Err(e) == [ok |-> FALSE, error |-> e]

\* String::from_utf8_lossy: a byte that is no UTF-8 becomes U+FFFD
from_utf8_lossy(bytes) ==
    [i \in 1..Len(bytes) |-> IF bytes[i] = "0xFF" THEN "U+FFFD" ELSE bytes[i]]

RECURSIVE LinesLoop(_, _, _)
\* str::lines: cut after every "\n", the "\n" and a "\r" before it left out; what
\* follows the last "\n" is a line if it is not empty
LinesLoop(chars, cur, lines) ==
    IF chars = <<>> THEN IF cur = <<>> THEN lines ELSE Append(lines, cur)
    ELSE IF Head(chars) = "\n"
         THEN LinesLoop(Tail(chars), <<>>,
                        Append(lines, IF cur # <<>> /\ cur[Len(cur)] = "\r"
                                      THEN SubSeq(cur, 1, Len(cur) - 1) ELSE cur))
         ELSE LinesLoop(Tail(chars), Append(cur, Head(chars)), lines)

Lines(s) == LinesLoop(s, <<>>, <<>>)

RECURSIVE Join(_, _)
\* [..].join(sep)
Join(parts, sep) ==
    IF parts = <<>> THEN <<>>
    ELSE IF Len(parts) = 1 THEN Head(parts)
    ELSE Head(parts) \o sep \o Join(Tail(parts), sep)

\* the lines without their trailing white space, joined by "\n"
JoinedLines(content) ==
    LET lines == Lines(content)
    IN  Join([i \in 1..Len(lines) |-> TrimEnd(lines[i])], <<"\n">>)

\* a parser that leaves out the last trim
parse_plain_text_untrimmed(bytes) ==
    LET content == from_utf8_lossy(bytes)
    IN  IF Trim(content) = <<>> THEN Ok(<<>>) ELSE Ok(JoinedLines(content))

\* parse_plain_text
parse_plain_text(bytes) ==
    LET content == from_utf8_lossy(bytes)
    IN  IF Trim(content) = <<>> THEN Ok(<<>>) ELSE Ok(Trim(JoinedLines(content)))

\* parse_pdf_content and parse_docx_content: the text the libraries extract, or
\* one of their errors; none of them is "Unsupported file type"
parse_pdf_content(bytes) == {Ok(<<"a">>), Err("Failed to extract text from PDF")}
parse_docx_content(bytes) == {Ok(<<"a">>), Err("Failed to extract text from DOCX")}

\* a file: its extension if the name has one, whether it can be read, its bytes
File(extension, readable, bytes) ==
    [extension |-> extension, readable |-> readable, bytes |-> bytes]

\* parse_document: the results it can give for a file
parse_document(file) ==
    IF ~file.extension.some THEN {Err("File has no extension")}
    ELSE IF ~file.readable THEN {Err("Failed to read file")}
    ELSE LET lower == to_lowercase(file.extension.value)
         IN  IF lower \in PlainTextArm THEN {parse_plain_text(file.bytes)}
             ELSE IF lower = <<"p", "d", "f">> THEN parse_pdf_content(file.bytes)
             ELSE IF lower = <<"d", "o", "c", "x">> THEN parse_docx_content(file.bytes)
             ELSE {Err("Unsupported file type")}

\* how long the input of parse_plain_text and the content of a file may be
MaxBytes == 5
MaxFileBytes == 2

\* the bytes of the inputs: a letter, the white space characters, a byte that is
\* no UTF-8
ByteValues == {"a", " ", "\n", "\r", "\t", "0xFF"}

BytesUpTo(n) == UNION {[1..k -> ByteValues] : k \in 0..n}

\* an extension in capital letters, where the model has them
Capitals(s) ==
    [i \in 1..Len(s) |->
        IF \E c \in DOMAIN LowerOf : c # "KELVIN" /\ LowerOf[c] = s[i]
        THEN CHOOSE c \in DOMAIN LowerOf : c # "KELVIN" /\ LowerOf[c] = s[i]
        ELSE s[i]]

\* the extensions of the three lists
Listed ==
    PlainTextArm \cup SupportedPatterns
    \cup {supported_extensions[i] : i \in DOMAIN supported_extensions}

\* the extensions asked about: those of the lists as they stand and in capital
\* letters, and extensions that are in no list
Extensions ==
    Listed \cup {Capitals(e) : e \in Listed}
    \cup {<<>>, <<"e", "x", "e">>, <<"t", "x">>, <<"t", "x", "t", "x">>, <<"d", "o", "c">>,
          <<"P", "d", "F">>, <<"KELVIN", "t">>, <<"t", "x", "t", " ">>, <<"p", "d", "f", "x">>}

\* no call of the parsers module yet
IdleParse ==
    [stage |-> "idle", extension |-> None, supported |-> FALSE,
     file |-> File(None, FALSE, <<>>), bytes |-> <<>>, result |-> Err("none")]

\* is_supported_file_type(extension) is called
AskSupported(extension) ==
    /\ parse.stage = "idle"
    /\ parse' = [parse EXCEPT !.stage = "asked", !.extension = Some(extension),
                              !.supported = is_supported_file_type(extension)]
    /\ UNCHANGED <<lexical, vectors, calls, pre, search>>

\* parse_document is called on a file with the extension asked about
ParseDocument(readable, bytes) ==
    /\ parse.stage = "asked"
    /\ LET file == File(parse.extension, readable, bytes)
       IN  \E result \in parse_document(file) :
               parse' = [parse EXCEPT !.stage = "parsed", !.file = file, !.result = result]
    /\ UNCHANGED <<lexical, vectors, calls, pre, search>>

\* parse_document is called on a file whose name has no extension
ParseNoExtension(readable, bytes) ==
    /\ parse.stage = "idle"
    /\ LET file == File(None, readable, bytes)
       IN  \E result \in parse_document(file) :
               parse' = [parse EXCEPT !.stage = "parsed", !.file = file, !.result = result]
    /\ UNCHANGED <<lexical, vectors, calls, pre, search>>

\* parse_plain_text(bytes) is called
ParsePlainText(bytes) ==
    /\ parse.stage = "idle"
    /\ parse' = [parse EXCEPT !.stage = "plain", !.bytes = bytes,
                              !.result = parse_plain_text(bytes)]
    /\ UNCHANGED <<lexical, vectors, calls, pre, search>>

InitParse ==
    /\ lexical = EmptyBag
    /\ vectors = EmptyBag
    /\ calls = [s \in Slots |-> IdleCall]
    /\ pre = [s \in Slots |-> NoSnapshot]
    /\ search = IdleSearch
    /\ parse = IdleParse

NextParse ==
    \/ \E extension \in Extensions : AskSupported(extension)
    \/ \E readable \in BOOLEAN, bytes \in BytesUpTo(MaxFileBytes) :
           ParseDocument(readable, bytes)
    \/ \E readable \in BOOLEAN, bytes \in BytesUpTo(MaxFileBytes) :
           ParseNoExtension(readable, bytes)
    \/ \E bytes \in BytesUpTo(MaxBytes) : ParsePlainText(bytes)

SpecParse == InitParse /\ [][NextParse]_vars

-----------------------------------------------------------------------------
(* The specifications of the orchestrator's calls *)

\* the state after SearchOrchestrator::new on an empty data directory
Init ==
    /\ lexical = EmptyBag
    /\ vectors = EmptyBag
    /\ calls = [s \in Slots |-> IdleCall]
    /\ pre = [s \in Slots |-> NoSnapshot]
    /\ search = IdleSearch
    /\ parse = IdleParse

\* the calls of a caller that passes valid dates and meets no store failure
Next ==
    \E s \in Caller :
        \/ \E doc \in RawDocuments(Paths, {DateNow}) : StartIndex(s, doc)
        \/ \E path \in Paths : StartDelete(s, path)
        \/ \E doc \in RawDocuments(Paths, {DateNow}) : StartUpdate(s, doc)
        \/ KwDelete(s)
        \/ VecDelete(s)
        \/ DeleteReturn(s)
        \/ UpdateReindex(s)
        \/ EmbedDone(s)
        \/ KwWrite(s)
        \/ VecWrite(s)
        \/ IndexReturn(s)

Spec == Init /\ [][Next]_vars

\* the calls of one caller when the stores and the blocking tasks may fail, and
\* the caller may pass a date before the epoch
NextFault ==
    \E s \in Caller :
        \/ \E doc \in RawDocuments(FaultPaths, {DateNow, DatePreEpoch}) : StartIndex(s, doc)
        \/ \E path \in FaultPaths : StartDelete(s, path)
        \/ \E doc \in RawDocuments(FaultPaths, {DateNow, DatePreEpoch}) : StartUpdate(s, doc)
        \/ KwDelete(s)
        \/ VecDelete(s)
        \/ KwDeleteFail(s)
        \/ VecDeleteFail(s)
        \/ DeleteReturn(s)
        \/ UpdateReindex(s)
        \/ UpdateAbort(s)
        \/ EmbedDone(s)
        \/ EmbedFail(s)
        \/ KwWrite(s)
        \/ VecWrite(s)
        \/ KwWriteFail(s)
        \/ VecWriteFail(s)
        \/ IndexReturn(s)

SpecFault == Init /\ [][NextFault]_vars

-----------------------------------------------------------------------------
(* The net effect of one call that runs alone and without error *)

\* delete_document(path) from the stores st
DeleteOutcome(st, path) ==
    [taken |-> TRUE,
     lexical |-> delete_document(st.lexical, path),
     vectors |-> delete_document_embeddings(st.vectors, path).table]

\* index_document(doc) from the stores st
IndexOutcome(st, doc) ==
    [taken |-> TRUE,
     lexical |-> add_document_batch(st.lexical, <<KeywordDocument(doc)>>).index,
     vectors |-> add_embeddings(st.vectors,
                     generate_embeddings_for_document(doc.title, doc.body, doc.path))]

\* the step-wise calls agree with their net effect, whichever write comes first
CallsMatchOutcome ==
    \A s \in Caller :
        /\ Returned(s, "delete", "ok") => Snapshot = DeleteOutcome(pre[s], calls[s].path)
        /\ Returned(s, "index", "ok") => Snapshot = IndexOutcome(pre[s], calls[s].doc)

\* how many records of the lexical index carry the path
RecordsOfPath(index, path) ==
    LET Other(r) == r.path # path IN BagCardinality(BagWithout(index, Other))

\* how many rows of the table carry the path and the embedding type
RowsOfType(table, path, type) ==
    LET Other(r) == r.document_path # path \/ r.embedding_type # type
    IN  BagCardinality(BagWithout(table, Other))

RowsOfPath(table, path) ==
    LET Other(r) == r.document_path # path IN BagCardinality(BagWithout(table, Other))

-----------------------------------------------------------------------------
(* search_orchestrator.rs: hybrid_search *)

\* f32 scores are fixed-point numbers: One stands for 1.0
One == 1000000

RRF_K == 60
\* the boosts and weights, in tenths
KEYWORD_BOOST == 12
TITLE_BOOST == 11
RECENCY_WEIGHT == 3
RRF_WEIGHT == 7
\* TopDocs::with_limit(20) of IndexManager::search
KeywordLimit == 20
\* .limit(10) of VectorDBManager::execute_search
VectorLimit == 10
\* .take(20) of hybrid_search
ResultCap == 20

SecsPerDay == 86400
DaysPerYear == 365
\* recency_factor.max(0.01), in units of One
RecencyFloor == 10000

\* the formula of the doc comment: 1 / (k + rank)
rrf_score_of_comment(rank) == One \div (RRF_K + rank)

\* calculate_rrf_score: 1.0 / (60.0 + rank as f32 + 1.0)
calculate_rrf_score(rank) == One \div (RRF_K + rank + 1)

\* the scale exp is computed at, and e^-1 at that scale
ExpOne == 10000
ExpMinusOne == 3679

RECURSIVE ExpNegInt(_)
\* e^-n for a whole n
ExpNegInt(n) ==
    IF n = 0 THEN ExpOne
    ELSE IF n > 12 THEN 0
    ELSE (ExpNegInt(n - 1) * ExpMinusOne) \div ExpOne

RECURSIVE ExpSeries(_, _, _)
\* the series of e^-f from its k-th term on, for f in thousandths below one
ExpSeries(f, k, term) ==
    IF term = 0 \/ k > 10 THEN 0
    ELSE (IF k % 2 = 0 THEN term ELSE 0 - term)
         + ExpSeries(f, k + 1, (term * f) \div (1000 * (k + 1)))

\* (-x).exp() for x >= 0 in thousandths
ExpNeg(x) == (ExpNegInt(x \div 1000) * ExpSeries(x % 1000, 0, ExpOne)) \div ExpOne

\* a later reading of the clock: SystemTime::now() is read anew in every call of
\* calculate_recency_score, and the loop of step 8 may run into the next second
DateLater == [secs |-> NowSecs + 1, nanos |-> 0]

\* the seconds of age that make one thousandth of -age_days / 365.0
SecsPerMilli == (SecsPerDay * DaysPerYear) \div 1000

\* a score without the floor: recency_factor.min(1.0)
recency_without_floor(modified_date, now) ==
    LET duration_since_epoch == IF modified_date.secs >= 0 THEN modified_date
                                ELSE [secs |-> 0, nanos |-> 0]
        age_secs == now.secs - duration_since_epoch.secs
    IN  IF duration_since_epoch.secs >= now.secs THEN One
        ELSE Min(ExpNeg(age_secs \div SecsPerMilli) * (One \div ExpOne), One)

\* calculate_recency_score, in a call in which SystemTime::now() returns now
calculate_recency_score(modified_date, now) ==
    LET duration_since_epoch == IF modified_date.secs >= 0 THEN modified_date
                                ELSE [secs |-> 0, nanos |-> 0]
    IN  IF \/ duration_since_epoch.secs > now.secs
           \/ /\ duration_since_epoch.secs = now.secs
              /\ duration_since_epoch.nanos >= now.nanos
        THEN One
        ELSE LET age_secs == (now.secs - duration_since_epoch.secs)
                             - (IF duration_since_epoch.nanos > now.nanos THEN 1 ELSE 0)
                 recency_factor == ExpNeg(age_secs \div SecsPerMilli) * (One \div ExpOne)
             IN  Min(Max(recency_factor, RecencyFloor), One)

RECURSIVE Enumerate(_)
\* the elements of a set in some fixed order
Enumerate(S) ==
    IF S = {} THEN <<>>
    ELSE LET x == CHOOSE y \in S : TRUE IN <<x>> \o Enumerate(S \ {x})

RECURSIVE Reverse(_)
Reverse(q) == IF q = <<>> THEN <<>> ELSE Append(Reverse(Tail(q)), Head(q))

Take(q, n) == SubSeq(q, 1, Min(n, Len(q)))

Rotate(q, k) == SubSeq(q, k + 1, Len(q)) \o SubSeq(q, 1, k)

RECURSIVE Copies(_, _)
Copies(x, n) == IF n = 0 THEN <<>> ELSE <<x>> \o Copies(x, n - 1)

RECURSIVE BagToSeq(_, _)
\* the elements of a bag, each as often as it is held, in the order of q
BagToSeq(b, q) ==
    IF q = <<>> THEN <<>> ELSE Copies(Head(q), b[Head(q)]) \o BagToSeq(b, Tail(q))

\* the order a query ranks hits in is the store's business: the model offers two
Directions == {"up", "down"}

Ranked(b, S, dir) ==
    LET q == BagToSeq(b, Enumerate(S)) IN IF dir = "up" THEN q ELSE Reverse(q)

\* IndexManager::search: the records that match the query (the first `matching` of
\* the ranking), best first, at most 20
keyword_search(index, matching, dir) ==
    LET hits == Take(Ranked(index, DOMAIN index, dir), Min(matching, KeywordLimit))
    IN  [i \in 1..Len(hits) |-> SearchResult(hits[i])]

\* VectorDBManager::execute_search: the nearest rows of one embedding type, at most 10
execute_search(table, type, dir) ==
    Take(Ranked(table, {r \in DOMAIN table : r.embedding_type = type}, dir), VectorLimit)

\* search_titles, search_summaries: (path, distance); the model drops the distance
search_paths(table, type, dir) ==
    LET rows == execute_search(table, type, dir)
    IN  [i \in 1..Len(rows) |-> rows[i].document_path]

\* search_chunks: (path, text_chunk, distance)
search_chunks(table, dir) ==
    LET rows == execute_search(table, "chunk", dir)
    IN  [i \in 1..Len(rows) |-> [path |-> rows[i].document_path,
                                 text |-> rows[i].text_chunk]]

\* HashMap::insert
Put(m, k, v) == [x \in DOMAIN m \cup {k} |-> IF x = k THEN v ELSE m[x]]

NoChunk == [some |-> FALSE, value |-> Text("chars", <<>>, <<>>)]
SomeChunk(t) == [some |-> TRUE, value |-> t]

CombinedScore(title, source_type, modified_date, rrf_score) ==
    [title |-> title, source_type |-> source_type, modified_date |-> modified_date,
     rrf_score |-> rrf_score, best_chunk |-> NoChunk]

RECURSIVE FuseKeyword(_, _, _)
\* the loop over keyword_results (step 4), from the hit at position i on
FuseKeyword(kw, i, scores) ==
    IF i > Len(kw) THEN scores
    ELSE LET add == (calculate_rrf_score(i - 1) * KEYWORD_BOOST) \div 10
             p   == kw[i].path
         IN  FuseKeyword(kw, i + 1,
                 IF p \in DOMAIN scores
                 THEN [scores EXCEPT ![p].rrf_score = @ + add]
                 ELSE Put(scores, p,
                          CombinedScore(kw[i].title, kw[i].source_type,
                                        kw[i].modified_date, add)))

RECURSIVE LastSegment(_, _)
\* path.split('/').last(): what follows the last '/'
LastSegment(path, seg) ==
    IF path = <<>> THEN seg
    ELSE IF Head(path) = "/" THEN LastSegment(Tail(path), <<>>)
         ELSE LastSegment(Tail(path), Append(seg, Head(path)))

\* the CombinedScore ensure_metadata_exists inserts for a lookup result
Hydrated(path, metadata) ==
    IF metadata.some
    THEN CombinedScore(metadata.value.title, metadata.value.source_type,
                       metadata.value.modified_date, 0)
    ELSE CombinedScore(<<"Document: ">> \o LastSegment(path, <<>>), "Unknown",
                       [secs |-> 0, nanos |-> 0], 0)

\* ensure_metadata_exists: the maps it can leave
EnsureMetadata(path, scores) ==
    IF path \in DOMAIN scores THEN {scores}
    ELSE {Put(scores, path, Hydrated(path, m)) : m \in get_document_metadata(lexical, path)}

\* the final score of one entry (step 8), the clock standing at now
FinalScore(score_data, now) ==
    (RECENCY_WEIGHT * calculate_recency_score(score_data.modified_date, now)
     + RRF_WEIGHT * score_data.rrf_score) \div 10

HybridSearchResult(path, score_data, now) ==
    [path |-> path, title |-> score_data.title, source_type |-> score_data.source_type,
     modified_date |-> score_data.modified_date,
     final_score |-> FinalScore(score_data, now),
     best_matching_chunk |-> score_data.best_chunk]

\* what the clock shows in the n calls of calculate_recency_score of one query: it
\* stands still, or it has moved on after the first call
ClockReadings(n) ==
    {[i \in 1..n |-> IF i < k THEN DateNow ELSE DateLater] : k \in {2, n + 1}}

\* the orders the HashMap may be iterated in (of the many, the model takes an
\* enumeration of the keys, its reverse, and their first rotations)
MaxRotate == 2

IterationOrders(keys) ==
    LET e == Enumerate(keys)
        ks == 0..Min(MaxRotate, Max(Len(e) - 1, 0))
    IN  {Rotate(e, k) : k \in ks} \cup {Rotate(Reverse(e), k) : k \in ks}

RECURSIVE InsertAscending(_, _)
\* the comparison the wrong way round: a.final_score.partial_cmp(&b.final_score)
InsertAscending(x, sorted) ==
    IF sorted = <<>> THEN <<x>>
    ELSE IF Head(sorted).final_score <= x.final_score
         THEN <<Head(sorted)>> \o InsertAscending(x, Tail(sorted))
         ELSE <<x>> \o sorted

RECURSIVE InsertSorted(_, _)
\* x goes behind every result whose final_score is not lower: the place a stable
\* sort by b.final_score.partial_cmp(&a.final_score) gives it
InsertSorted(x, sorted) ==
    IF sorted = <<>> THEN <<x>>
    ELSE IF Head(sorted).final_score >= x.final_score
         THEN <<Head(sorted)>> \o InsertSorted(x, Tail(sorted))
         ELSE <<x>> \o sorted

RECURSIVE SortByFinalScore(_, _)
\* final_results.sort_by(...): the results of q merged one by one into sorted
SortByFinalScore(q, sorted) ==
    IF q = <<>> THEN sorted
    ELSE SortByFinalScore(Tail(q), InsertSorted(Head(q), sorted))

\* steps 8 to 11 for one iteration order of combined_scores
RankResults(scores, order, clock) ==
    LET final_results == [i \in 1..Len(order) |->
                             HybridSearchResult(order[i], scores[order[i]], clock[i])]
    IN  Take(SortByFinalScore(final_results, <<>>), ResultCap)

\* the queries hybrid_search is called with
Queries == {<<>>, <<" ">>, <<"c", "a", "t">>}

\* the query is embedded, the four retrievals have returned (stage 1), and the
\* keyword results are fused
SearchRetrieve(query, matching, kd, td, sd, cd) ==
    /\ search.stage = "idle"
    /\ generate_single_embedding(Text("chars", query, <<>>)).ok
    /\ LET kw == keyword_search(lexical, matching, kd)
       IN  search' = [IdleSearch EXCEPT
                         !.stage = "title", !.query = query, !.at = Snapshot,
                         !.kw = kw,
                         !.tv = search_paths(vectors, "title", td),
                         !.sv = search_paths(vectors, "summary", sd),
                         !.cv = search_chunks(vectors, cd),
                         !.i = 1,
                         !.scores = FuseKeyword(kw, 1, <<>>)]
    /\ UNCHANGED <<lexical, vectors, calls, pre, parse>>

\* one turn of the loop over title_results (step 5)
FuseTitleHit ==
    /\ search.stage = "title" /\ search.i <= Len(search.tv)
    /\ LET p == search.tv[search.i]
           add == (calculate_rrf_score(search.i - 1) * TITLE_BOOST) \div 10
       IN  \E m \in EnsureMetadata(p, search.scores) :
               search' = [search EXCEPT !.scores = [m EXCEPT ![p].rrf_score = @ + add],
                                        !.i = @ + 1]
    /\ UNCHANGED <<lexical, vectors, calls, pre, parse>>

\* one turn of the loop over summary_results (step 6)
FuseSummaryHit ==
    /\ search.stage = "summary" /\ search.i <= Len(search.sv)
    /\ LET p == search.sv[search.i]
           add == calculate_rrf_score(search.i - 1)
       IN  \E m \in EnsureMetadata(p, search.scores) :
               search' = [search EXCEPT !.scores = [m EXCEPT ![p].rrf_score = @ + add],
                                        !.i = @ + 1]
    /\ UNCHANGED <<lexical, vectors, calls, pre, parse>>

\* a turn of the loop over chunk_results that stores the chunk of every hit
FuseChunkHitLastWins ==
    /\ search.stage = "chunk" /\ search.i <= Len(search.cv)
    /\ LET p == search.cv[search.i].path
           add == calculate_rrf_score(search.i - 1)
       IN  \E m \in EnsureMetadata(p, search.scores) :
               search' = [search EXCEPT
                   !.scores = [m EXCEPT
                       ![p].rrf_score = @ + add,
                       ![p].best_chunk = SomeChunk(search.cv[search.i].text)],
                   !.i = @ + 1]
    /\ UNCHANGED <<lexical, vectors, calls, pre, parse>>

\* one turn of the loop over chunk_results (step 7)
FuseChunkHit ==
    /\ search.stage = "chunk" /\ search.i <= Len(search.cv)
    /\ LET p == search.cv[search.i].path
           add == calculate_rrf_score(search.i - 1)
       IN  \E m \in EnsureMetadata(p, search.scores) :
               search' = [search EXCEPT
                   !.scores = [m EXCEPT
                       ![p].rrf_score = @ + add,
                       ![p].best_chunk = IF @.some THEN @
                                         ELSE SomeChunk(search.cv[search.i].text)],
                   !.i = @ + 1]
    /\ UNCHANGED <<lexical, vectors, calls, pre, parse>>

\* a loop has run through its list: the next loop begins
FuseNextList ==
    /\ \/ search.stage = "title" /\ search.i > Len(search.tv)
             /\ search' = [search EXCEPT !.stage = "summary", !.i = 1]
       \/ search.stage = "summary" /\ search.i > Len(search.sv)
             /\ search' = [search EXCEPT !.stage = "chunk", !.i = 1]
       \/ search.stage = "chunk" /\ search.i > Len(search.cv)
             /\ search' = [search EXCEPT !.stage = "ranking", !.i = 0]
    /\ UNCHANGED <<lexical, vectors, calls, pre, parse>>

\* steps 8 to 11: score, sort, take, return
SearchRank ==
    /\ search.stage = "ranking"
    /\ \E order \in IterationOrders(DOMAIN search.scores) :
           \E clock \in ClockReadings(Len(order)) :
               search' = [search EXCEPT
                             !.stage = "done",
                             !.results = RankResults(search.scores, order, clock)]
    /\ UNCHANGED <<lexical, vectors, calls, pre, parse>>

\* how many documents the store of the search specification may hold
MaxSearchDocs == 22

\* the path of the n-th document: its number, and for every third a directory
NumPath(n) ==
    (IF n % 3 = 0 THEN <<"d", "/">> ELSE <<>>)
    \o (IF n >= 10 THEN <<Digits[n \div 10]>> ELSE <<>>)
    \o <<IF n % 10 = 0 THEN "0" ELSE Digits[n % 10]>>

SentenceDog == [words |-> <<"dog">>, bytes |-> 600, chars |-> 600]
SentenceOwl == [words |-> <<"owl">>, bytes |-> 600, chars |-> 600]

\* the n-th document: of changing age, every fourth with a body of two chunks
SearchDoc(n) ==
    [path |-> NumPath(n), title |-> <<"T">>,
     body |-> IF n % 4 = 0 THEN <<SentenceDog, SentenceOwl>> ELSE <<SentenceCat>>,
     source_type |-> "file", author |-> NoAuthor,
     modified_date |-> [secs |-> NowSecs - (n % 5) * 250 * SecsPerDay, nanos |-> 0]]

\* index_document(doc) for the next document, while no search runs
IndexSearchDoc ==
    /\ search = IdleSearch
    /\ BagCardinality(lexical) < MaxSearchDocs
    /\ LET st == IndexOutcome(Snapshot, SearchDoc(BagCardinality(lexical) + 1))
       IN  /\ lexical' = st.lexical
           /\ vectors' = st.vectors
    /\ UNCHANGED <<calls, pre, search, parse>>

\* empty stores, and no call in flight
InitSearch ==
    /\ lexical = EmptyBag
    /\ vectors = EmptyBag
    /\ calls = [s \in Slots |-> IdleCall]
    /\ pre = [s \in Slots |-> NoSnapshot]
    /\ search = IdleSearch
    /\ parse = IdleParse

NextSearch ==
    \/ IndexSearchDoc
    \/ \E query \in Queries, matching \in 0..BagCardinality(lexical),
          kd, td, sd, cd \in Directions :
           SearchRetrieve(query, matching, kd, td, sd, cd)
    \/ FuseTitleHit
    \/ FuseSummaryHit
    \/ FuseChunkHit
    \/ FuseNextList
    \/ SearchRank

SpecSearch == InitSearch /\ [][NextSearch]_vars

-----------------------------------------------------------------------------
(* hybrid_search when the embedding, a retrieval or a metadata lookup fails *)

\* spawn_blocking(generate_single_embedding(&query)).await?? returns the error
SearchEmbedFail(query) ==
    /\ search.stage = "idle"
    /\ ~generate_single_embedding(Text("chars", query, <<>>)).ok
    /\ search' = [IdleSearch EXCEPT !.stage = "error", !.query = query,
                                    !.at = Snapshot, !.failed = {"embedding"}]
    /\ UNCHANGED <<lexical, vectors, calls, pre, parse>>

Retrievals == {"keyword", "title", "summary", "chunk"}

\* the hits of the four retrievals when those of `failing` return an error (the
\* others rank their hits in the direction dir)
RetrievedBut(failing, matching, dir) ==
    [kw |-> IF "keyword" \in failing THEN <<>>
            ELSE keyword_search(lexical, matching, dir),
     tv |-> IF "title" \in failing THEN <<>> ELSE search_paths(vectors, "title", dir),
     sv |-> IF "summary" \in failing THEN <<>>
            ELSE search_paths(vectors, "summary", dir),
     cv |-> IF "chunk" \in failing THEN <<>> ELSE search_chunks(vectors, dir)]

\* a search that goes on with the hits of the retrievals that did not fail
SearchRetrieveDegraded(query, failing, matching, dir) ==
    /\ search.stage = "idle"
    /\ generate_single_embedding(Text("chars", query, <<>>)).ok
    /\ failing # {}
    /\ LET r == RetrievedBut(failing, matching, dir)
       IN  search' = [IdleSearch EXCEPT
                         !.stage = "title", !.query = query, !.at = Snapshot,
                         !.failed = failing,
                         !.kw = r.kw, !.tv = r.tv, !.sv = r.sv, !.cv = r.cv, !.i = 1,
                         !.scores = FuseKeyword(r.kw, 1, <<>>)]
    /\ UNCHANGED <<lexical, vectors, calls, pre, parse>>

\* the join of the four retrievals has returned and at least one of them failed:
\* keyword_results?, title_results?, summary_results?, chunk_results? returns the
\* first error
SearchRetrieveFail(query, failing, matching, dir) ==
    /\ search.stage = "idle"
    /\ generate_single_embedding(Text("chars", query, <<>>)).ok
    /\ failing # {}
    /\ LET r == RetrievedBut(failing, matching, dir)
       IN  search' = [IdleSearch EXCEPT
                         !.stage = "error", !.query = query, !.at = Snapshot,
                         !.failed = failing,
                         !.kw = r.kw, !.tv = r.tv, !.sv = r.sv, !.cv = r.cv]
    /\ UNCHANGED <<lexical, vectors, calls, pre, parse>>

\* the path of the hit the fusion loop stands at
CurrentHit ==
    CASE search.stage = "title"   -> search.tv[search.i]
      [] search.stage = "summary" -> search.sv[search.i]
      [] search.stage = "chunk"   -> search.cv[search.i].path

\* ensure_metadata_exists(path, ..).await? returns an error: the lookup, or its
\* blocking task, failed
MetadataFail ==
    /\ \/ search.stage = "title" /\ search.i <= Len(search.tv)
       \/ search.stage = "summary" /\ search.i <= Len(search.sv)
       \/ search.stage = "chunk" /\ search.i <= Len(search.cv)
    /\ CurrentHit \notin DOMAIN search.scores
    /\ search' = [search EXCEPT !.stage = "error", !.failed = {"metadata"}]
    /\ UNCHANGED <<lexical, vectors, calls, pre, parse>>

NextSearchFault ==
    \/ NextSearch
    \/ \E query \in Queries : SearchEmbedFail(query)
    \/ \E query \in Queries, failing \in SUBSET Retrievals,
          matching \in 0..BagCardinality(lexical), dir \in Directions :
           SearchRetrieveFail(query, failing, matching, dir)
    \/ MetadataFail

SpecSearchFault == InitSearch /\ [][NextSearchFault]_vars

-----------------------------------------------------------------------------
(* index_document over many titles and bodies: the per-document batch *)

\* how many pieces a body has at most
MaxPieces == 4

EmbedTitles == {<<>>, <<" ">>, <<"T">>, <<" ", "T">>}

EmbedPieces ==
    {SentenceCat, SentenceTheCat, SentenceWide, SentenceLong, SentenceDog, Blank}

\* bodies long enough for a summary of 3, 4 and 5 sentences
SummaryLens == {5, 12, 15, 16}
LongBodies ==
    {[i \in 1..n |-> IF i % a = 0 THEN SentenceCat
                     ELSE IF i % b = 1 THEN SentenceWide ELSE SentenceDog] :
         n \in SummaryLens, a \in 2..3, b \in 2..3}

EmbedBodies == UNION {[1..n -> EmbedPieces] : n \in 0..MaxPieces} \cup LongBodies

EmbedDocuments ==
    [path : {PathA}, title : EmbedTitles, body : EmbedBodies, source_type : SourceTypes,
     author : {NoAuthor}, modified_date : {DateNow}]

\* index_document has been called on empty stores
InitEmbed ==
    /\ lexical = EmptyBag
    /\ vectors = EmptyBag
    /\ \E doc \in EmbedDocuments :
           calls = [s \in Slots |->
                       IF s \in Caller
                       THEN [IdleCall EXCEPT !.op = "index", !.pc = "embedding",
                                             !.doc = doc, !.path = doc.path]
                       ELSE IdleCall]
    /\ pre = [s \in Slots |-> IF s \in Caller
                               THEN [NoSnapshot EXCEPT !.taken = TRUE] ELSE NoSnapshot]
    /\ search = IdleSearch
    /\ parse = IdleParse

NextEmbed ==
    \E s \in Caller :
        \/ EmbedDone(s)
        \/ KwWrite(s)
        \/ VecWrite(s)
        \/ IndexReturn(s)

SpecEmbed == InitEmbed /\ [][NextEmbed]_vars

\* the records of one embedding type, in the order of the batch
RecordsOfType(records, type) == SelectSeq(records, LAMBDA r : r.embedding_type = type)

\* the place of an embedding type in the batch
TypeOrder(type) == CASE type = "title" -> 1 [] type = "summary" -> 2 [] type = "chunk" -> 3

RECURSIVE ChunkChars(_)
\* the length of a chunk in characters
ChunkChars(c) ==
    IF c = <<>> THEN 0
    ELSE Head(c).chars + (IF Len(c) > 1 THEN 1 ELSE 0) + ChunkChars(Tail(c))

RECURSIVE SentencesOf(_)
\* the sentences of the chunk records, one after the other
SentencesOf(chunk_records) ==
    IF chunk_records = <<>> THEN <<>>
    ELSE Head(chunk_records).text_chunk.sents \o SentencesOf(Tail(chunk_records))

-----------------------------------------------------------------------------
(* Steps 8 to 11 of hybrid_search over two entries of equal rrf_score *)

\* ages in days (a negative age is a date to come)
RecencyDays == {-1, 0, 1, 100, 365, 1000, 2000}

RecencyDates ==
    {[secs |-> NowSecs - d * SecsPerDay + o, nanos |-> n] :
        d \in RecencyDays, o \in {0, 1}, n \in {0, 5}}
    \cup {DatePreEpoch, [secs |-> 0, nanos |-> 0]}

\* the dates an entry of combined_scores can carry: the index keeps whole seconds
\* since the epoch, and the placeholder is the epoch
StoredDates == {d \in RecencyDates : d.nanos = 0 /\ d.secs >= 0}

\* the rrf_score the two entries share
RecencyRrf == {0, calculate_rrf_score(0), 3 * calculate_rrf_score(0)}

\* d is a later instant than e
Later(d, e) == d.secs > e.secs \/ (d.secs = e.secs /\ d.nanos > e.nanos)

\* the fusion has left two entries of one rrf_score
InitRecency ==
    /\ lexical = EmptyBag
    /\ vectors = EmptyBag
    /\ calls = [s \in Slots |-> IdleCall]
    /\ pre = [s \in Slots |-> NoSnapshot]
    /\ \E d, e \in StoredDates, rrf \in RecencyRrf :
           search = [IdleSearch EXCEPT
                        !.stage = "ranking", !.query = <<"c", "a", "t">>,
                        !.at = Snapshot,
                        !.scores = Put(Put(<<>>, PathA, CombinedScore(<<"T">>, "file", d, rrf)),
                                       PathB, CombinedScore(<<"T">>, "file", e, rrf))]
    /\ parse = IdleParse

NextRecency == SearchRank

SpecRecency == InitRecency /\ [][NextRecency]_vars

\* the result of the search for a path
ResultOf(path) ==
    LET i == CHOOSE i \in 1..Len(search.results) : search.results[i].path = path
    IN  search.results[i]

-----------------------------------------------------------------------------
(* The claims *)

\* C1: after delete(path) has returned without error, the lexical index holds and
\* returns no record for that path, and the vector store holds no row whose
\* document_path is that path.
C1_DeleteRemovesPath ==
    \A s \in Caller :
        Returned(s, "delete", "ok") =>
            /\ RecordsOfPath(lexical, calls[s].path) = 0
            /\ get_document_metadata(lexical, calls[s].path) = {None}
            /\ RowsOfPath(vectors, calls[s].path) = 0

\* C2: in every state reached by error-free index, update and delete calls the
\* lexical index holds at most one record per path.
C2_OneRecordPerPath ==
    \A p \in Paths : RecordsOfPath(lexical, p) <= 1

\* C3: in every state reached by error-free index, update and delete calls the
\* vector store holds, per document_path, at most one 'title' row and at most one
\* 'summary' row.
C3_OneTitleOneSummary ==
    \A p \in Paths :
        /\ RowsOfType(vectors, p, "title") <= 1
        /\ RowsOfType(vectors, p, "summary") <= 1

RECURSIVE AllStored(_, _)
\* every record of the batch is a row of the table
AllStored(table, records) ==
    \/ records = <<>>
    \/ /\ BagIn(Head(records), table)
       /\ AllStored(table, Tail(records))

\* C4: after index(doc) has returned without error, lookup_by_path(doc.path)
\* returns a record, which is a record of doc.path, and the vector store holds
\* every embedding record of doc's batch.
C4_IndexedIsFound ==
    \A s \in Caller :
        Returned(s, "index", "ok") =>
            /\ \A m \in get_document_metadata(lexical, calls[s].doc.path) :
                   m.some /\ m.value.path = calls[s].doc.path
            /\ AllStored(vectors, calls[s].records)
            /\ calls[s].records = generate_embeddings_for_document(
                   calls[s].doc.title, calls[s].doc.body, calls[s].doc.path)

\* C5: update(doc) run without error leaves both stores as delete(doc.path)
\* followed by index(doc) leaves them, from the state the update began in.
C5_UpdateIsDeleteThenIndex ==
    \A s \in Caller :
        Returned(s, "update", "ok") =>
            Snapshot = IndexOutcome(DeleteOutcome(pre[s], calls[s].path), calls[s].doc)

\* an update has returned that found records of its path in both stores
C5_Witness ==
    \E s \in Caller :
        /\ Returned(s, "update", "ok")
        /\ RowsOfPath(pre[s].vectors, calls[s].path) > 0
        /\ pre[s].lexical # delete_document(pre[s].lexical, calls[s].path)

\* C6: index(doc) followed by update(doc) with the same doc leaves both stores in
\* the state index(doc) alone left them in.
C6_IndexThenUpdateIsIndex ==
    \A s \in Caller :
        (Returned(s, "update", "ok") /\ calls[s].follows) => Snapshot = pre[s]

\* C7: delete(path) followed by delete(path): both succeed and the second leaves
\* both stores as the first left them.
C7_DeleteIdempotent ==
    \A s \in Caller :
        /\ (calls[s].op = "delete" /\ calls[s].follows /\ calls[s].pc = "done")
               => calls[s].result = "ok"
        /\ (Returned(s, "delete", "ok") /\ calls[s].follows) => Snapshot = pre[s]

\* a delete has been repeated on stores that still hold records
C7_Witness ==
    \E s \in Caller :
        /\ Returned(s, "delete", "ok") /\ calls[s].follows
        /\ lexical # EmptyBag /\ vectors # EmptyBag

\* C8: delete(path) leaves every lexical record and every embedding row whose
\* path differs from the argument as it was.
C8_DeleteFrame ==
    \A s \in Caller :
        Returned(s, "delete", "ok") =>
            /\ \A r \in DOMAIN pre[s].lexical :
                   r.path # calls[s].path =>
                       CopiesIn(r, lexical) = CopiesIn(r, pre[s].lexical)
            /\ \A r \in DOMAIN pre[s].vectors :
                   r.document_path # calls[s].path =>
                       CopiesIn(r, vectors) = CopiesIn(r, pre[s].vectors)

\* C10: within one index call neither write waits for the other; the call returns
\* only when both writes have finished (or neither was begun), and it returns
\* success only if both committed.
C10_IndexJoinsBothWrites ==
    \A s \in Caller :
        /\ (calls[s].pc = "writing" /\ calls[s].kw = "pending") => ENABLED KwWrite(s)
        /\ (calls[s].pc = "writing" /\ calls[s].vec = "pending") => ENABLED VecWrite(s)
        /\ (calls[s].pc = "done" /\ calls[s].op = "index") =>
               /\ Joined(s) \/ (calls[s].kw = "none" /\ calls[s].vec = "none")
               /\ calls[s].result = "ok" => BothOk(s)
               /\ calls[s].result = "err" => ~BothOk(s)

\* an index call has returned an error after its vector write committed and its
\* lexical write failed
C10_Witness ==
    \E s \in Caller :
        /\ Returned(s, "index", "err")
        /\ calls[s].kw = "err" /\ calls[s].vec = "ok"
        /\ calls[s].records # <<>>
        /\ AllStored(vectors, calls[s].records)

\* C9: a successful hybrid_search returns at most 20 results, ordered by
\* non-increasing final_score.
C9_AtMostTwentySorted ==
    search.stage = "done" =>
        /\ Len(search.results) <= 20
        /\ \A i \in 1..Len(search.results) - 1 :
               search.results[i].final_score >= search.results[i + 1].final_score

\* a search has returned 20 results of more than 20 candidates, not all of one score
C9_Witness ==
    /\ search.stage = "done"
    /\ Cardinality(DOMAIN search.scores) > 20
    /\ Len(search.results) = 20
    /\ search.results[1].final_score > search.results[20].final_score

\* C11: within one update(doc) no write of the re-index starts before both deletes
\* for doc.path have finished; between the two phases doc.path is absent from both
\* stores; and if the delete phase fails the re-index is not attempted.
C11_DeleteBeforeReindex ==
    \A s \in Caller :
        calls[s].op = "update" =>
            /\ calls[s].pc = "deleting" =>
                   /\ ~calls[s].reindex
                   /\ lexical = IF calls[s].kw = "ok"
                                THEN delete_document(pre[s].lexical, calls[s].path)
                                ELSE pre[s].lexical
                   /\ vectors = IF calls[s].vec = "ok"
                                THEN delete_document_embeddings(pre[s].vectors,
                                                                calls[s].path).table
                                ELSE pre[s].vectors
            /\ calls[s].pc \in {"embedding", "writing"} => calls[s].reindex
            /\ calls[s].pc = "embedding" =>
                   /\ RecordsOfPath(lexical, calls[s].path) = 0
                   /\ RowsOfPath(vectors, calls[s].path) = 0
            /\ (calls[s].pc = "done" /\ ~calls[s].reindex) =>
                   /\ calls[s].result = "err"
                   /\ lexical \sqsubseteq pre[s].lexical
                   /\ vectors \sqsubseteq pre[s].vectors

\* C12: index performs no rollback: when one of its two writes succeeds and the
\* other fails, the successful write stays committed and the call returns an error;
\* and an error-free update(doc) from such a partly indexed state leaves, for
\* doc.path, what an error-free index(doc) of a path not indexed before leaves.
C12_NoRollbackUpdateConverges ==
    \A s \in Caller :
        /\ (calls[s].pc = "done" /\ calls[s].op = "index" /\ ~BothOk(s)) =>
               calls[s].result = "err"
        /\ (Returned(s, "index", "err") /\ calls[s].kw = "ok" /\ calls[s].vec = "err") =>
               /\ lexical = add_document_batch(pre[s].lexical,
                                               <<KeywordDocument(calls[s].doc)>>).index
               /\ vectors = pre[s].vectors
        /\ (Returned(s, "index", "err") /\ calls[s].kw = "err" /\ calls[s].vec = "ok") =>
               /\ lexical = pre[s].lexical
               /\ vectors = add_embeddings(pre[s].vectors, calls[s].records)
        /\ (Returned(s, "update", "ok") /\ calls[s].retries) =>
               LET OfPath(r) == r.path = calls[s].path
                   RowOfPath(r) == r.document_path = calls[s].path
                   fresh == [taken |-> TRUE,
                             lexical |-> BagWithout(pre[s].lexical, OfPath),
                             vectors |-> BagWithout(pre[s].vectors, RowOfPath)]
               IN  Snapshot = IndexOutcome(fresh, calls[s].doc)

\* C13: if any of the four retrievals of hybrid_search fails, or a metadata lookup
\* during fusion fails, hybrid_search returns an error and no result list, even
\* when the other retrievals returned hits.
C13_AnyFailureIsFatal ==
    /\ search.failed # {} => (search.stage = "error" /\ search.results = <<>>)
    /\ search.stage = "done" => search.failed = {}

\* the summary retrieval failed while the keyword, title and chunk retrievals
\* returned hits
C13_Witness ==
    /\ search.stage = "error"
    /\ search.failed = {"summary"}
    /\ search.kw # <<>> /\ search.tv # <<>> /\ search.cv # <<>>

\* C14: embedding a string that is empty after trimming fails; hybrid_search with an
\* empty or whitespace-only query returns an error before any of the four
\* retrievals is launched and leaves both stores unchanged.
C14_BlankQueryFails ==
    /\ \A q \in Queries :
           Trim(q) = <<>> => ~generate_single_embedding(Text("chars", q, <<>>)).ok
    /\ (search.stage # "idle" /\ Trim(search.query) = <<>>) =>
           /\ search.stage = "error"
           /\ search.failed = {"embedding"}
           /\ search.kw = <<>> /\ search.tv = <<>>
           /\ search.sv = <<>> /\ search.cv = <<>>
           /\ search.results = <<>>
           /\ Snapshot = search.at

\* a whitespace-only query has failed on stores that hold documents
C14_Witness ==
    /\ search.stage = "error"
    /\ search.query = <<" ">>
    /\ lexical # EmptyBag /\ vectors # EmptyBag

\* what C15 says of the batch of call s, when HasSummary tells whether the summary
\* counts as non-empty
BatchAsClaimed(s, HasSummary(_)) ==
    LET doc == calls[s].doc
        records == calls[s].records
        chunks == chunk_text(doc.body)
        filled == SelectSeq(chunks, LAMBDA c : ~IsEmptyText(Text("spaced", <<>>, c)))
    IN  /\ Len(RecordsOfType(records, "title")) = IF Trim(doc.title) # <<>> THEN 1 ELSE 0
        /\ Len(RecordsOfType(records, "summary")) =
               IF HasSummary(summarize_text(doc.body)) THEN 1 ELSE 0
        /\ Len(RecordsOfType(records, "chunk")) = Len(filled)
        /\ \A i \in 1..Len(filled) :
               RecordsOfType(records, "chunk")[i].text_chunk = Text("spaced", <<>>, filled[i])
        /\ \A i \in 1..Len(records) - 1 :
               TypeOrder(records[i].embedding_type) <= TypeOrder(records[i + 1].embedding_type)
        /\ \A i \in 1..Len(records) :
               /\ generate_single_embedding(records[i].text_chunk).ok
               /\ records[i].document_path = doc.path
        /\ (doc.body = <<>> /\ Trim(doc.title) # <<>>) =>
               /\ Len(records) = 1
               /\ records[1].embedding_type = "title"
               /\ calls[s].pc = "done" => calls[s].result = "ok"

C20_ChunkWithinTargetOrSingle ==
    \A s \in Caller :
        (calls[s].op = "index" /\ calls[s].pc \in {"writing", "done"}) =>
            LET chunk_records == RecordsOfType(calls[s].records, "chunk")
            IN  /\ \A i \in 1..Len(chunk_records) :
                       LET c == chunk_records[i].text_chunk.sents
                       IN  /\ \/ ChunkLen(c) <= 1000 /\ ChunkChars(c) <= 1000
                              \/ Len(c) = 1
                           /\ \A j \in 1..Len(c) :
                                  (c[j].bytes > 1000 \/ c[j].chars > 1000) => Len(c) = 1
                /\ SentencesOf(chunk_records) = unicode_sentences(calls[s].doc.body)

\* a body whose long sentence stands between two chunks of short ones
C20_Witness ==
    \E s \in Caller :
        /\ calls[s].pc = "done"
        /\ LET chunk_records == RecordsOfType(calls[s].records, "chunk")
           IN  /\ Len(chunk_records) = 3
               /\ chunk_records[2].text_chunk.sents = <<SentenceLong>>
               /\ Len(chunk_records[1].text_chunk.sents) = 2

C18_HydratedFromIndexOrPlaceholder ==
    search.stage \in {"title", "summary", "chunk", "ranking", "done"} =>
        /\ search.failed = {}
        /\ \A p \in DOMAIN search.scores \ {search.kw[i].path : i \in 1..Len(search.kw)} :
               LET entry == search.scores[p]
                   records == {r \in DOMAIN lexical : r.path = p}
               IN  /\ records # {} =>
                          \E r \in records :
                              /\ entry.title = r.title
                              /\ entry.source_type = r.source_type
                              /\ entry.modified_date = SearchResult(r).modified_date
                   /\ records = {} =>
                          /\ entry.title = <<"Document: ">> \o LastSegment(p, <<>>)
                          /\ entry.source_type = "Unknown"
                          /\ entry.modified_date = [secs |-> 0, nanos |-> 0]
                   /\ \A i \in 1..Len(search.results) :
                          search.results[i].path = p =>
                              /\ search.results[i].title = entry.title
                              /\ search.results[i].source_type = entry.source_type
                              /\ search.results[i].modified_date = entry.modified_date

-----------------------------------------------------------------------------
(* One hybrid_search while a caller indexes, updates and deletes *)

\* the documents of the caller that runs beside the query
ConcurrentPaths == {PathA}
ConcurrentDocs ==
    {d \in RawDocuments(ConcurrentPaths, {DateNow}) :
         d.title = <<"T">> /\ d.body = <<SentenceCat>>}

\* the steps of the caller's calls: each is a task of its own on the runtime, its
\* store accesses run in spawn_blocking threads or at awaits of the vector store
CallOver(s, docs) ==
    \/ \E doc \in docs : StartIndex(s, doc)
    \/ \E doc \in docs : StartDelete(s, doc.path)
    \/ \E doc \in docs : StartUpdate(s, doc)
    \/ KwDelete(s)
    \/ VecDelete(s)
    \/ DeleteReturn(s)
    \/ UpdateReindex(s)
    \/ EmbedDone(s)
    \/ KwWrite(s)
    \/ VecWrite(s)
    \/ IndexReturn(s)

ConcurrentCall(s) == CallOver(s, ConcurrentDocs)

\* the query: its retrievals, then one step for each turn of the three loops, where
\* ensure_metadata_exists awaits the lookup it hands to spawn_blocking, then the
\* ranking
ConcurrentSearch ==
    \/ \E matching \in 0..BagCardinality(lexical), dir \in Directions :
           SearchRetrieve(<<"c", "a", "t">>, matching, dir, dir, dir, dir)
    \/ FuseTitleHit
    \/ FuseSummaryHit
    \/ FuseChunkHit
    \/ FuseNextList
    \/ SearchRank

NextConcurrent ==
    \/ \E s \in Caller : ConcurrentCall(s)
    \/ ConcurrentSearch

SpecConcurrent == Init /\ [][NextConcurrent]_vars

\* C17: the fusion, scoring and sorting stages of hybrid_search contain no
\* suspension point: once the four retrievals have completed, no concurrent index,
\* update or delete changes the outcome of the rest of the query, so every entry
\* that is not from the keyword results carries what the lookup of its path gives
\* in the stores as they were when the retrievals completed.
C17_FusionSeesRetrievalState ==
    search.stage \in {"title", "summary", "chunk", "ranking", "done"} =>
        \A p \in DOMAIN search.scores \ {search.kw[i].path : i \in 1..Len(search.kw)} :
            \E m \in get_document_metadata(search.at.lexical, p) :
                LET entry == search.scores[p]
                    then == Hydrated(p, m)
                IN  /\ entry.title = then.title
                    /\ entry.source_type = then.source_type
                    /\ entry.modified_date = then.modified_date

-----------------------------------------------------------------------------
(* Cancellation: the caller drops the future of a call that is under way *)

Cancelled == {"cancelled", "cancelled_writing", "cancelled_deleting"}

\* The future of index_document, delete_document or update_document is dropped at
\* one of its awaits.  Nothing of the future runs again: the vector store arm of a
\* join is part of the future and is dropped with it.  The JoinHandle of a
\* spawn_blocking task is dropped too, which detaches the task: the closure still
\* runs on its thread.  pre[s] keeps the stores as they are at this moment.
Cancel(s) ==
    /\ calls[s].pc \in {"embedding", "deleting", "writing"}
    /\ calls' = [calls EXCEPT
                    ![s].pc = IF calls[s].kw # "pending" THEN "cancelled"
                              ELSE IF calls[s].pc = "writing" THEN "cancelled_writing"
                              ELSE "cancelled_deleting",
                    ![s].result = "cancelled"]
    /\ pre' = [pre EXCEPT ![s] = Snapshot]
    /\ UNCHANGED <<lexical, vectors, search, parse>>

\* the detached blocking task of index_document:
\* index_manager.add_document_batch(vec![keyword_doc])
DetachedKwWrite(s) ==
    /\ calls[s].pc = "cancelled_writing"
    /\ LET r == add_document_batch(lexical, <<KeywordDocument(calls[s].doc)>>)
       IN  /\ lexical' = r.index
           /\ calls' = [calls EXCEPT ![s].pc = "cancelled",
                                     ![s].kw = IF r.ok THEN "ok" ELSE "err"]
    /\ UNCHANGED <<vectors, pre, search, parse>>

\* the detached blocking task of delete_document:
\* index_manager.delete_document(&path)
DetachedKwDelete(s) ==
    /\ calls[s].pc = "cancelled_deleting"
    /\ lexical' = delete_document(lexical, calls[s].path)
    /\ calls' = [calls EXCEPT ![s].pc = "cancelled", ![s].kw = "ok"]
    /\ UNCHANGED <<vectors, pre, search, parse>>

\* the documents of the caller that cancels
CancelDocs ==
    {d \in RawDocuments(FaultPaths, {DateNow}) :
         d.title = <<"T">> /\ d.body = <<SentenceCat>>}

\* a caller that may cancel its call, and starts the next one only when the
\* previous one has returned
NextCancel ==
    \E s \in Caller :
        \/ CallOver(s, CancelDocs)
        \/ Cancel(s)
        \/ DetachedKwWrite(s)
        \/ DetachedKwDelete(s)

SpecCancel == Init /\ [][NextCancel]_vars

\* C16: when an index, update or delete call is cancelled at the orchestrator while
\* child tasks are outstanding, no store is mutated after the moment of
\* cancellation: the stores stay as they were when the call was cancelled.
C16_NoWriteAfterCancel ==
    \A s \in Caller :
        calls[s].pc \in Cancelled => Snapshot = pre[s]

-----------------------------------------------------------------------------
(* The text analysis: chunking and summarizing *)

\* C21: the lengths compared against the 1000 chunk budget are counts of
\* characters, not bytes: two sentences whose character lengths plus one do not
\* exceed 1000 are placed in the same chunk, so a chunk ends only where the next
\* sentence would take it beyond 1000 characters.
C21_BudgetInCharacters ==
    \A s \in Caller :
        (calls[s].op = "index" /\ calls[s].pc \in {"writing", "done"}) =>
            LET chunk_records == RecordsOfType(calls[s].records, "chunk")
            IN  \A i \in 1..(Len(chunk_records) - 1) :
                    ChunkChars(chunk_records[i].text_chunk.sents)
                        + Head(chunk_records[i + 1].text_chunk.sents).chars + 1
                    > TARGET_CHUNK_SIZE

RECURSIVE Concat(_)
\* the sentences of the chunks, one chunk after the other
Concat(chunks) ==
    IF chunks = <<>> THEN <<>> ELSE Head(chunks) \o Concat(Tail(chunks))

\* C22: for every body, the chunks returned by chunking are all non-empty, and
\* reading the chunks in order yields every sentence of the body exactly once and
\* in the original order (each sentence lies wholly inside one chunk; sentences
\* inside a chunk are separated by one added space).
C22_ChunksKeepSentences ==
    \A s \in Caller :
        (calls[s].op = "index" /\ calls[s].pc \in {"writing", "done"}) =>
            LET chunks == chunk_text(calls[s].doc.body)
                chunk_records == RecordsOfType(calls[s].records, "chunk")
            IN  /\ \A i \in 1..Len(chunks) :
                       /\ chunks[i] # <<>>
                       /\ ~IsBlank(Text("spaced", <<>>, chunks[i]))
                /\ Concat(chunks) = unicode_sentences(calls[s].doc.body)
                /\ Len(chunk_records) = Len(chunks)
                /\ \A i \in 1..Len(chunks) :
                       chunk_records[i].text_chunk = Text("spaced", <<>>, chunks[i])

\* a body of four pieces, one of them white space, has been indexed in two chunks,
\* the first of two sentences
C22_Witness ==
    \E s \in Caller :
        /\ calls[s].pc = "done"
        /\ LET chunks == chunk_text(calls[s].doc.body)
           IN  /\ Len(calls[s].doc.body) = 4
               /\ Len(unicode_sentences(calls[s].doc.body)) = 3
               /\ Len(chunks) = 2
               /\ Len(chunks[1]) = 2

\* C23: summarizing a body that has at most 3 sentences returns the body
\* unchanged, character for character (no trimming and no re-joining).
C23_ShortBodyUnchanged ==
    \A s \in Caller :
        (/\ calls[s].op = "index" /\ calls[s].pc \in {"writing", "done"}
         /\ Len(unicode_sentences(calls[s].doc.body)) <= 3) =>
            LET body == calls[s].doc.body
                summaries == RecordsOfType(calls[s].records, "summary")
            IN  /\ summarize_text(body) = Text("raw", <<>>, body)
                /\ \A i \in 1..Len(summaries) :
                       /\ summaries[i].text_chunk.form = "raw"
                       /\ summaries[i].text_chunk.sents = body

\* a body of three sentences and a piece of white space has been indexed, and its
\* summary record holds the four pieces
C23_Witness ==
    \E s \in Caller :
        /\ calls[s].pc = "done"
        /\ Len(calls[s].doc.body) = 4
        /\ Len(unicode_sentences(calls[s].doc.body)) = 3
        /\ \E r \in DOMAIN vectors :
               /\ r.embedding_type = "summary"
               /\ r.text_chunk.sents = calls[s].doc.body

\* the sentences at the indices I, in their order in the body
SentencesAt(sentences, I) ==
    [n \in 1..Cardinality(I) |->
        sentences[CHOOSE i \in I : Cardinality({j \in I : j <= i}) = n]]

\* C24: for a body with N > 3 sentences, the summary consists of exactly
\* k = min(5, max(3, floor(N/3))) sentences: the k with the highest scores, where of
\* two sentences with equal score the one appearing first in the body is
\* preferred; the selected sentences appear in the summary in their original
\* order, each trimmed, joined by single spaces.
C24_TopSentencesInOrder ==
    \A s \in Caller :
        (/\ calls[s].op = "index" /\ calls[s].pc \in {"writing", "done"}
         /\ Len(unicode_sentences(calls[s].doc.body)) > 3) =>
            LET sentences == unicode_sentences(calls[s].doc.body)
                N == Len(sentences)
                third == N \div 3
                k == IF third < 3 THEN 3 ELSE IF third > 5 THEN 5 ELSE third
                score == [i \in 1..N |-> SentenceScore(sentences, i)]
                summary == summarize_text(calls[s].doc.body)
                summaries == RecordsOfType(calls[s].records, "summary")
            IN  /\ summary.form = "trimmed"
                /\ Len(summary.sents) = k
                /\ \E I \in SUBSET (1..N) :
                       /\ Cardinality(I) = k
                       /\ \A i \in I, j \in (1..N) \ I :
                              \/ score[i].num * score[j].den > score[j].num * score[i].den
                              \/ /\ score[i].num * score[j].den = score[j].num * score[i].den
                                 /\ i < j
                       /\ summary.sents = SentencesAt(sentences, I)
                /\ Len(summaries) = 1
                /\ summaries[1].text_chunk = summary

\* a body of fifteen sentences has been indexed with a summary of five, and one of
\* five sentences with a summary of three that leaves out the first sentence
C24_Witness ==
    \E s \in Caller :
        /\ calls[s].pc = "done"
        /\ LET sentences == unicode_sentences(calls[s].doc.body)
               summary == summarize_text(calls[s].doc.body)
           IN  /\ Len(sentences) = 15
               /\ Len(summary.sents) = 5
               /\ \E i, j \in 1..15 :
                      /\ i < j
                      /\ RankOf(sentences, i) >= 5
                      /\ RankOf(sentences, j) < 5
               /\ \E i, j \in 1..15 :
                      /\ i < j
                      /\ ScoreEqual(SentenceScore(sentences, i), SentenceScore(sentences, j))
                      /\ RankOf(sentences, i) < 5
                      /\ RankOf(sentences, j) >= 5

-----------------------------------------------------------------------------
(* The parsers module *)

\* C25: is_supported_file_type is case-insensitive and agrees with the other two
\* lists: for every extension e, is_supported_file_type(e) is true iff
\* lowercase(e) is in supported_extensions(), iff parse_document on a readable file
\* with extension e does not fail with 'Unsupported file type'.
C25_SupportedListsAgree ==
    (parse.stage \in {"asked", "parsed"} /\ parse.extension.some) =>
        LET e == parse.extension.value
            listed == \E i \in DOMAIN supported_extensions :
                          supported_extensions[i] = to_lowercase(e)
        IN  /\ parse.supported <=> listed
            /\ parse.supported <=> is_supported_file_type(Capitals(e))
            /\ parse.supported <=> is_supported_file_type(to_lowercase(e))
            /\ (parse.stage = "parsed" /\ parse.file.readable) =>
                   (parse.supported <=> parse.result # Err("Unsupported file type"))

\* a readable file with the extension PDF has been parsed, after
\* is_supported_file_type("PDF") gave true
C25_Witness ==
    /\ parse.stage = "parsed"
    /\ parse.extension = Some(<<"P", "D", "F">>)
    /\ parse.supported
    /\ parse.file.readable
    /\ parse.result.ok

\* the characters of s that are no white space
Inked(s) == SelectSeq(s, LAMBDA c : ~IsWhitespace(c))

\* C26: parse_plain_text never fails; it returns the empty string for
\* whitespace-only input, and otherwise returns the input's lines with trailing
\* whitespace removed from each line, joined by "\n" and trimmed at both ends, so
\* that applying the same normalization to its output changes nothing.
C26_PlainTextNormalized ==
    /\ parse.stage = "plain" =>
           LET content == from_utf8_lossy(parse.bytes)
               lines == Lines(content)
           IN  /\ parse.result.ok
               /\ LET out == parse.result.value
                  IN  /\ Inked(content) = <<>> => out = <<>>
                      /\ Inked(content) # <<>> =>
                             out = Trim(Join([i \in 1..Len(lines) |-> TrimEnd(lines[i])],
                                             <<"\n">>))
                      /\ Inked(out) = Inked(content)
                      /\ Trim(out) = out
                      /\ \A i \in 1..Len(Lines(out)) : TrimEnd(Lines(out)[i]) = Lines(out)[i]
                      /\ parse_plain_text(out) = Ok(out)
    /\ (/\ parse.stage = "parsed" /\ parse.extension.some /\ parse.file.readable
        /\ to_lowercase(parse.extension.value) \in PlainTextArm) =>
           /\ parse.result.ok
           /\ parse.result = parse_plain_text(parse.file.bytes)

\* two lines with white space at the end of the first and before the second have
\* been parsed
C26_Witness ==
    /\ parse.stage = "plain"
    /\ parse.bytes = <<"a", " ", "\n", " ", "a">>
    /\ parse.result = Ok(<<"a", "\n", " ", "a">>)

-----------------------------------------------------------------------------
(* The scores and the best chunk of hybrid_search *)

RECURSIVE BoostedSum(_, _, _, _)
\* the sum of boost x 1/(61 + i) over the occurrences of path p in a hit list, i
\* the 0-based position (n = i + 1), the boost in tenths
BoostedSum(paths, n, p, boost) ==
    IF n > Len(paths) THEN 0
    ELSE (IF paths[n] = p THEN ((One \div (61 + (n - 1))) * boost) \div 10 ELSE 0)
         + BoostedSum(paths, n + 1, p, boost)

\* the paths of the keyword hits and of the chunk hits, in the order of the lists
KeywordPaths == [i \in 1..Len(search.kw) |-> search.kw[i].path]
ChunkPaths == [i \in 1..Len(search.cv) |-> search.cv[i].path]

ChunkHits(p, n) == {m \in 1..n : m <= Len(ChunkPaths) /\ ChunkPaths[m] = p}

\* the first of a non-empty set of positions
First(S) == CHOOSE m \in S : \A n \in S : m <= n

\* C28: for every path in the result of hybrid_search, best_matching_chunk is the
\* text of the first (lowest-rank) chunk hit for that path in the chunk result
\* list, and is null exactly when the path has no chunk hit; a later chunk hit for
\* the same path never replaces it.
C28_BestChunkIsFirstHit ==
    /\ search.stage \in {"chunk", "ranking", "done"} =>
           \A p \in DOMAIN search.scores :
               LET seen == ChunkHits(p, IF search.stage = "chunk"
                                        THEN search.i - 1 ELSE Len(search.cv))
                   best == search.scores[p].best_chunk
               IN  /\ best.some <=> seen # {}
                   /\ seen # {} => best = SomeChunk(search.cv[First(seen)].text)
    /\ search.stage = "done" =>
           \A i \in 1..Len(search.results) :
               search.results[i].best_matching_chunk
                   = search.scores[search.results[i].path].best_chunk

\* a query has returned a path with two chunk hits of different text, and one with
\* no chunk hit
C28_Witness ==
    /\ search.stage = "done"
    /\ \E i, j \in 1..Len(search.results) :
           LET hits == ChunkHits(search.results[i].path, Len(search.cv))
           IN  /\ \E m, n \in hits : search.cv[m].text # search.cv[n].text
               /\ search.results[i].best_matching_chunk.some
               /\ ~search.results[j].best_matching_chunk.some

-----------------------------------------------------------------------------
(* Two index calls at the same time, and the writer of the keyword index *)

\* the document of each of the two callers: two different paths
DocsOf(s) == RawDocuments({IF s = 1 THEN PathA ELSE PathB}, {DateNow})

\* a caller holds the IndexWriter of the keyword index: from self.index.writer(..)
\* until add_document_batch returns
HoldsWriter(s) == calls[s].pc = "writing" /\ calls[s].kw = "locked"

\* add_document_batch, first part: self.index.writer(100_000_000)? takes the
\* writer lock of the index directory, which no other writer holds
KwOpenWriter(s) ==
    /\ calls[s].pc = "writing" /\ calls[s].kw = "pending"
    /\ \A t \in Slots : ~HoldsWriter(t)
    /\ calls' = [calls EXCEPT ![s].kw = "locked"]
    /\ UNCHANGED <<lexical, vectors, pre, search, parse>>

\* self.index.writer(100_000_000)? while another writer holds the lock: the lock is
\* not waited for, Index::writer returns a LockBusy error, nothing is added
KwWriterBusy(s) ==
    /\ calls[s].pc = "writing" /\ calls[s].kw = "pending"
    /\ \E t \in Slots : HoldsWriter(t)
    /\ calls' = [calls EXCEPT ![s].kw = "err"]
    /\ UNCHANGED <<lexical, vectors, pre, search, parse>>

\* add_document_batch, second part: the documents are added, writer.commit()?, and
\* the writer is dropped
KwCommit(s) ==
    /\ HoldsWriter(s)
    /\ LET r == add_document_batch(lexical, <<KeywordDocument(calls[s].doc)>>)
       IN  /\ lexical' = r.index
           /\ calls' = [calls EXCEPT ![s].kw = IF r.ok THEN "ok" ELSE "err"]
    /\ UNCHANGED <<vectors, pre, search, parse>>

\* two callers, each with one index call, on empty stores
NextTwoIndex ==
    \E s \in Slots :
        \/ \E doc \in DocsOf(s) : calls[s].pc = "idle" /\ StartIndex(s, doc)
        \/ EmbedDone(s)
        \/ KwOpenWriter(s)
        \/ KwWriterBusy(s)
        \/ KwCommit(s)
        \/ VecWrite(s)
        \/ IndexReturn(s)

SpecTwoIndex == Init /\ [][NextTwoIndex]_vars

\* C29: when two index calls for two different paths run concurrently, under every
\* interleaving of their lexical and vector writes, the lexical commits are
\* sequenced rather than rejected: both calls complete without error and
\* afterwards both stores hold exactly the records of both documents, as if the
\* calls had run one after the other.
C29_ConcurrentIndexBothCommit ==
    (\A s \in Slots : calls[s].pc = "done") =>
        /\ \A s \in Slots : calls[s].result = "ok"
        /\ Snapshot = IndexOutcome(IndexOutcome([NoSnapshot EXCEPT !.taken = TRUE],
                                                calls[1].doc), calls[2].doc)

\* the index call of the slot returned an error from the embedding step: neither
\* write of the join was started
EmbeddingFailed(s) ==
    /\ Returned(s, "index", "err")
    /\ calls[s].kw = "none" /\ calls[s].vec = "none"

\* C30: if computing the embedding batch of index(doc) fails (an embedding call
\* returns an error, or the blocking task panics or is cancelled), index returns an
\* error and neither the lexical index nor the vector store is written: both
\* stores are as they were when the call began.
C30_EmbeddingFailureWritesNothing ==
    \A s \in Caller : EmbeddingFailed(s) => Snapshot = pre[s]

\* an index call fails in the embedding step while the stores hold a document
C30_Witness ==
    \E s \in Caller :
        /\ EmbeddingFailed(s)
        /\ BagCardinality(lexical) > 0 /\ BagCardinality(vectors) > 0
        /\ DurationSinceEpochOk(calls[s].doc.modified_date)

====
